---- MODULE Spec2Model ----
(***************************************************************************)
(* A model of src/src/game.rs: the post-flop game object (PostFlopGame),   *)
(* its construction (update_config: check_config, init_range,              *)
(* init_hand_strength, init_root with the recursive tree builder) and the  *)
(* terminal-node evaluator (evaluate).                                     *)
(*                                                                         *)
(* Conventions.                                                            *)
(*  - A Vec is a sequence; the code's 0-based index i is At(v, i).         *)
(*  - Option<T>: None is <<>>, Some(x) is <<x>>.                           *)
(*  - A u64 bit mask is the set of its set bit positions (0..63).          *)
(*  - Range priors (f32) are integer weights; num_combinations_inv (f64)   *)
(*    is the exact fraction <<numerator, denominator>>.                    *)
(*  - An entry of evaluate's result vector is kept exactly, in units of    *)
(*    num_combinations_inv / 2 (the 1/2 is tie_payoff's factor 0.5); the   *)
(*    final rounding to f32 is not modelled.                               *)
(*  - Bet-size ratios (f32) are exact fractions <<numerator, denominator>>.*)
(***************************************************************************)
EXTENDS Integers, Sequences, FiniteSets, TLC

VARIABLES
    \* ---- the PostFlopGame object (game.rs:13-24)
    config,                 \* GameConfig
    num_combinations_inv,   \* <<n, d>>, the f64 n/d
    initial_reach,          \* [0..1 -> Vec of priors]
    private_hand_cards,     \* [0..1 -> Vec of <<c1, c2>>]
    same_hand_index,        \* [0..1 -> Vec of Option index]
    hand_strength,          \* [board_index -> [0..1 -> HandStrength]]
    root,                   \* the root PostFlopNode and a summary of the tree under it
    \* ---- the last call of update_config
    ret,                    \* "none" before any call, "Ok", or the Err text
    max_memory_mb,          \* the call's Option<u32>
    current_memory_usage,   \* init_root's two counters as read after the build
    additional_memory_usage,
    \* ---- the hand evaluator library (holdem_hand_evaluator): the score of a hand
    evaluator,
    \* ---- a terminal node visited by the training loop, and its calls of evaluate
    terminal,               \* the PostFlopNode at hand
    reach,                  \* [0..1 -> Vec]: each player's reach at the node
    result,                 \* [0..1 -> Vec]: each player's result buffer
    evaluated,              \* [0..1 -> "no" | "returned" | "panicked"]
    \* ---- one invocation of build_tree_recursive
    node,                   \* the PostFlopNode being built
    info,                   \* its BuildTreeInfo
    \* ---- a call of flop_from_str
    flop_str,               \* the &str argument, a sequence of characters
    parsed,                 \* None before the call returns, then Some(Result)
    \* ---- the invocations of build_tree_recursive that run in parallel
    builders,               \* the invocations forked by a par_iter and not yet returned
    nodes                   \* [path -> PostFlopNode]: the nodes they have pushed

gameVars == <<config, num_combinations_inv, initial_reach, private_hand_cards,
              same_hand_index, hand_strength, root>>
callVars == <<ret, max_memory_mb, current_memory_usage, additional_memory_usage>>
evalVars == <<terminal, reach, result, evaluated>>
treeVars == <<node, info>>
parseVars == <<flop_str, parsed>>
parVars == <<builders, nodes>>
vars == <<gameVars, callVars, evaluator, evalVars, treeVars, parseVars, parVars>>

-----------------------------------------------------------------------------
(* Program constants *)

PLAYER_OOP == 0
PLAYER_IP == 1
PLAYER_CHANCE == 255
PLAYER_MASK == 255
PLAYER_TERMINAL_FLAG == 256
PLAYER_FOLD_FLAG == 768
NOT_DEALT == 255
NumCards == 52
MaskBits == 64

None == <<>>
Some(x) == <<x>>

At(v, i) == v[i + 1]

Min(a, b) == IF a <= b THEN a ELSE b
Max(a, b) == IF a >= b THEN a ELSE b

RECURSIVE SeqSum(_)
SeqSum(s) == IF s = <<>> THEN 0 ELSE Head(s) + SeqSum(Tail(s))

SeqToSet(s) == {s[k] : k \in 1..Len(s)}

\* 1 << c on a u64 with the shift amount taken modulo 64, which is what a build
\* without overflow checks computes; a build with overflow checks panics for c >= 64
ShiftOverflows(c) == c >= MaskBits
Shl1(c) == {c % MaskBits}

\* x & 768 == 768 and x & 256 != 0 on the u16 player field
Pow2(n) == 2 ^ n
BitSet(x, b) == (x \div Pow2(b)) % 2 = 1

-----------------------------------------------------------------------------
(* Range (crate::range): a finite table of nonzero priors *)

get_data(range, c1, c2) == IF <<c1, c2>> \in DOMAIN range THEN range[<<c1, c2>>] ELSE 0
is_empty(range) == \A h \in DOMAIN range : range[h] = 0

\* (c1, c2) < (d1, d2) of Rust's tuple order
HandLess(a, b) == a[1] < b[1] \/ (a[1] = b[1] /\ a[2] < b[2])

\* the pairs (card1, card2) of the loops for card1 in 0..52 { for card2 in
\* card1 + 1..52 } that have an entry in the table (get_data is 0 for the others)
LoopHands(range) == {h \in DOMAIN range : h[1] < h[2] /\ h[2] < NumCards}

\* the pairs of the set kept, in the order in which the two loops visit them
HandsInLoopOrder(kept) ==
    [k \in 1..Cardinality(kept) |->
        CHOOSE h \in kept : Cardinality({g \in kept : HandLess(g, h)}) = k - 1]

hand_mask(h) == Shl1(h[1]) \cup Shl1(h[2])

\* slice::binary_search(..).ok()
RECURSIVE BinarySearchFrom(_, _, _, _)
BinarySearchFrom(hands, hand, left, right) ==
    IF left >= right THEN None
    ELSE LET mid == left + ((right - left) \div 2) IN
         IF At(hands, mid) = hand THEN Some(mid)
         ELSE IF HandLess(At(hands, mid), hand)
              THEN BinarySearchFrom(hands, hand, mid + 1, right)
              ELSE BinarySearchFrom(hands, hand, left, mid)
binary_search(hands, hand) == BinarySearchFrom(hands, hand, 0, Len(hands))

-----------------------------------------------------------------------------
(* check_config *)

ErrFlopNotInit == "Flop cards not initialized"
ErrFlopRange == "Flop cards must be in [0, 52)"
ErrFlopUnique == "Flop cards must be unique"
ErrPot == "Initial pot must be positive"
ErrStack == "Initial stack must be positive"
ErrOopRange == "OOP's range not initialized"
ErrIpRange == "IP's range not initialized"
ErrNoAssignment == "Valid card assignment does not exist"
ErrMemory == "Memory usage exceeds the limit"

flop_mask_of(flop) == Shl1(flop[1]) \cup Shl1(flop[2]) \cup Shl1(flop[3])

\* the quadruple loop of check_config: the sum of oop_prob * ip_prob (inner-loop
\* terms whose ip_prob is 0 add 0.0 and are skipped here)
NumCombinations(cfg) ==
    LET flop_mask == flop_mask_of(cfg.flop)
        oop == HandsInLoopOrder({h \in LoopHands(cfg.range[PLAYER_OOP]) :
                   /\ hand_mask(h) \cap flop_mask = {}
                   /\ get_data(cfg.range[PLAYER_OOP], h[1], h[2]) > 0})
        ip == HandsInLoopOrder({h \in LoopHands(cfg.range[PLAYER_IP]) :
                   get_data(cfg.range[PLAYER_IP], h[1], h[2]) # 0})
        inner(o) == SeqSum([k \in 1..Len(ip) |->
                       IF hand_mask(ip[k]) \cap (flop_mask \cup hand_mask(o)) = {}
                       THEN get_data(cfg.range[PLAYER_OOP], o[1], o[2])
                            * get_data(cfg.range[PLAYER_IP], ip[k][1], ip[k][2])
                       ELSE 0])
    IN  SeqSum([k \in 1..Len(oop) |-> inner(oop[k])])

\* a mutation of check_config: the flop range test is off by one
check_config_off_by_one(cfg) ==
    LET flop == cfg.flop IN
    IF \E k \in 1..3 : flop[k] = NOT_DEALT THEN ErrFlopNotInit
    ELSE IF \E k \in 1..3 : NumCards - 1 <= flop[k] THEN ErrFlopRange
    ELSE IF flop[1] = flop[2] \/ flop[1] = flop[3] \/ flop[2] = flop[3] THEN ErrFlopUnique
    ELSE IF cfg.initial_pot <= 0 THEN ErrPot
    ELSE IF cfg.initial_stack <= 0 THEN ErrStack
    ELSE IF is_empty(cfg.range[PLAYER_OOP]) THEN ErrOopRange
    ELSE IF is_empty(cfg.range[PLAYER_IP]) THEN ErrIpRange
    ELSE IF NumCombinations(cfg) = 0 THEN ErrNoAssignment
    ELSE "Ok"

\* the Result of check_config: "Ok" or the error
check_config(cfg) ==
    LET flop == cfg.flop IN
    IF \E k \in 1..3 : flop[k] = NOT_DEALT THEN ErrFlopNotInit
    ELSE IF \E k \in 1..3 : NumCards <= flop[k] THEN ErrFlopRange
    ELSE IF flop[1] = flop[2] \/ flop[1] = flop[3] \/ flop[2] = flop[3] THEN ErrFlopUnique
    ELSE IF cfg.initial_pot <= 0 THEN ErrPot
    ELSE IF cfg.initial_stack <= 0 THEN ErrStack
    ELSE IF is_empty(cfg.range[PLAYER_OOP]) THEN ErrOopRange
    ELSE IF is_empty(cfg.range[PLAYER_IP]) THEN ErrIpRange
    ELSE IF NumCombinations(cfg) = 0 THEN ErrNoAssignment
    ELSE "Ok"

-----------------------------------------------------------------------------
(* init_range *)

\* private_hand_cards[player] and initial_reach[player] after the push loop
HandList(range) ==
    HandsInLoopOrder({h \in LoopHands(range) : get_data(range, h[1], h[2]) > 0})
ReachList(range) ==
    LET hands == HandList(range)
    IN  [k \in 1..Len(hands) |-> get_data(range, hands[k][1], hands[k][2])]

SameHandIndex(player_hands, opponent_hands) ==
    [k \in 1..Len(player_hands) |-> binary_search(opponent_hands, player_hands[k])]

-----------------------------------------------------------------------------
(* init_hand_strength *)

\* a mutation of board_index: the two cards are not ordered
board_index_unordered(turn, river) == (turn * (101 - turn)) \div 2 + river - 1

board_index(turn, river) ==
    LET t == Min(turn, river)
        r == Max(turn, river)
    IN  (t * (101 - t)) \div 2 + r - 1

\* (val, i) < (val2, i2) of Rust's tuple order
PairLess(a, b) == a[1] < b[1] \/ (a[1] = b[1] /\ a[2] < b[2])

\* sort_unstable on pairwise different (val, i) pairs: the k-th is the one with k-1 below
SortPairs(pairs) ==
    [k \in 1..Len(pairs) |->
        CHOOSE p \in {pairs[m] : m \in 1..Len(pairs)} :
            Cardinality({m \in 1..Len(pairs) : PairLess(pairs[m], p)}) = k - 1]

\* slice::partition_point on a slice partitioned by a predicate, given as the
\* sequence of the predicate's values on the slice: the length of the prefix on
\* which it holds
partition_point(pred) ==
    IF \A k \in 1..Len(pred) : pred[k] THEN Len(pred)
    ELSE (CHOOSE k \in 1..Len(pred) : ~pred[k] /\ \A m \in 1..(k - 1) : pred[m]) - 1

\* strength[player] for the board flop + board1 + board2: 0 on a conflict with the
\* board, else the library's score
Strength(flop, board1, board2, hands, eval) ==
    LET board == {flop[1], flop[2], flop[3], board1, board2} IN
    [k \in 1..Len(hands) |->
        IF hands[k][1] \in board \/ hands[k][2] \in board THEN 0 ELSE eval[hands[k]]]

\* the closure's value for one (board1, board2): [HandStrength; 2]
BoardStrength(flop, board1, board2, hand_cards, eval) ==
    IF board1 \notin {flop[1], flop[2], flop[3]} /\ board2 \notin {flop[1], flop[2], flop[3]}
    THEN LET strength == [p \in 0..1 |-> Strength(flop, board1, board2, hand_cards[p], eval)]
             strength_sorted == [p \in 0..1 |->
                 SortPairs([k \in 1..Len(strength[p]) |-> <<strength[p][k], k - 1>>])]
         IN  [player \in 0..1 |->
                LET sorted == strength_sorted[1 - player] IN
                [opponent_increasing_index |-> [k \in 1..Len(sorted) |-> sorted[k][2]],
                 exclude_threshold |-> partition_point([m \in 1..Len(sorted) |-> sorted[m][1] = 0]),
                 win_threshold |-> [k \in 1..Len(strength[player]) |->
                     partition_point([m \in 1..Len(sorted) |->
                                         sorted[m][1] < strength[player][k]])],
                 tie_threshold |-> [k \in 1..Len(strength[player]) |->
                     partition_point([m \in 1..Len(sorted) |->
                                         sorted[m][1] <= strength[player][k]])]]]
    ELSE [player \in 0..1 |->
            [opponent_increasing_index |-> <<>>, exclude_threshold |-> 0,
             win_threshold |-> <<>>, tie_threshold |-> <<>>]]

-----------------------------------------------------------------------------
(* evaluate *)

is_fold(nd) == BitSet(nd.player, 8) /\ BitSet(nd.player, 9)

board_mask_of(nd) ==
    flop_mask_of(config.flop) \cup Shl1(nd.turn) \cup Shl1(nd.river)

\* a mutation of SameHandReach: the inclusion-exclusion correction is left out
SameHandReachDropped(player, i, cfreach) == 0

\* same_hand_index[i].map_or(0.0, |j| cfreach[j])
SameHandReach(player, i, cfreach) ==
    LET j == At(same_hand_index[player], i)
    IN  IF j = None THEN 0 ELSE At(cfreach, j[1])

\* a mutation of FoldPayoff: the winner is paid what the folder loses
FoldPayoffNoPot(nd, player) ==
    LET folded_player == nd.player % (PLAYER_MASK + 1)
    IN  IF folded_player = player THEN -nd.amount ELSE nd.amount

\* payoff of the fold branch; node.player & PLAYER_MASK is the player who folded
FoldPayoff(nd, player) ==
    LET folded_player == nd.player % (PLAYER_MASK + 1)
    IN  IF folded_player = player THEN -nd.amount
        ELSE config.initial_pot + nd.amount

\* the fold branch: the new contents of result
EvaluateFold(res, nd, player, cfreach) ==
    LET board_mask == board_mask_of(nd)
        payoff == FoldPayoff(nd, player)
        opponent_cards == private_hand_cards[1 - player]
        live(k) == hand_mask(opponent_cards[k]) \cap board_mask = {}
        cfreach_sum == SeqSum([k \in 1..Len(opponent_cards) |->
                           IF live(k) THEN cfreach[k] ELSE 0])
        cfreach_minus(c) == SeqSum([k \in 1..Len(opponent_cards) |->
                           IF live(k) /\ c \in {opponent_cards[k][1], opponent_cards[k][2]}
                           THEN cfreach[k] ELSE 0])
        player_cards == private_hand_cards[player]
    IN  [k \in 1..Len(res) |->
            LET c1 == player_cards[k][1]
                c2 == player_cards[k][2]
            IN  IF hand_mask(player_cards[k]) \cap board_mask = {}
                THEN 2 * payoff * (cfreach_sum - (cfreach_minus(c1) + cfreach_minus(c2))
                                   + SameHandReach(player, k - 1, cfreach))
                ELSE res[k]]

\* the showdown branch: the new contents of result
EvaluateShowdown(res, nd, player, cfreach) ==
    LET board_mask == board_mask_of(nd)
        hs == hand_strength[board_index(nd.turn, nd.river)][player]
        index == hs.opponent_increasing_index
        opponent_cards == private_hand_cards[1 - player]
        \* cfreach_sum[k] and cfreach_minus[k][c] after the k-th push
        cfreach_sum(k) == SeqSum([m \in 1..k |-> At(cfreach, index[m])])
        cfreach_minus(k, c) == SeqSum([m \in 1..k |->
            IF c \in {At(opponent_cards, index[m])[1], At(opponent_cards, index[m])[2]}
            THEN At(cfreach, index[m]) ELSE 0])
        win_payoff == config.initial_pot + nd.amount
        tie_payoff2 == config.initial_pot       \* twice initial_pot * 0.5
        lose_payoff == -nd.amount
        player_cards == private_hand_cards[player]
        exclude_threshold == hs.exclude_threshold
        lose_threshold == Len(cfreach)
    IN  [k \in 1..Len(res) |->
            LET c1 == player_cards[k][1]
                c2 == player_cards[k][2]
                win_threshold == hs.win_threshold[k]
                tie_threshold == hs.tie_threshold[k]
                win_cfreach ==
                    (cfreach_sum(win_threshold) - cfreach_sum(exclude_threshold))
                    - (cfreach_minus(win_threshold, c1) - cfreach_minus(exclude_threshold, c1))
                    - (cfreach_minus(win_threshold, c2) - cfreach_minus(exclude_threshold, c2))
                tie_cfreach ==
                    (cfreach_sum(tie_threshold) - cfreach_sum(win_threshold))
                    - (cfreach_minus(tie_threshold, c1) - cfreach_minus(win_threshold, c1))
                    - (cfreach_minus(tie_threshold, c2) - cfreach_minus(win_threshold, c2))
                    + SameHandReach(player, k - 1, cfreach)
                lose_cfreach ==
                    (cfreach_sum(lose_threshold) - cfreach_sum(tie_threshold))
                    - (cfreach_minus(lose_threshold, c1) - cfreach_minus(tie_threshold, c1))
                    - (cfreach_minus(lose_threshold, c2) - cfreach_minus(tie_threshold, c2))
            IN  IF hand_mask(player_cards[k]) \cap board_mask = {}
                THEN 2 * win_payoff * win_cfreach + tie_payoff2 * tie_cfreach
                     + 2 * lose_payoff * lose_cfreach
                ELSE res[k]]

evaluate(res, nd, player, cfreach) ==
    IF is_fold(nd) THEN EvaluateFold(res, nd, player, cfreach)
    ELSE EvaluateShowdown(res, nd, player, cfreach)

\* the shifts 1 << node.turn and 1 << node.river of board_mask overflow the u64
EvaluateOverflows(nd) == ShiftOverflows(nd.turn) \/ ShiftOverflows(nd.river)

\* One call evaluate(&mut result[player], terminal, player, &reach[player ^ 1]).
\* A shift by 64 or more panics in a build with overflow checks and wraps in one
\* without.
Evaluate(player) ==
    /\ evaluated[player] = "no"
    /\ \E overflow_checks \in BOOLEAN :
         IF overflow_checks /\ EvaluateOverflows(terminal)
         THEN /\ evaluated' = [evaluated EXCEPT ![player] = "panicked"]
              /\ UNCHANGED result
         ELSE /\ evaluated' = [evaluated EXCEPT ![player] = "returned"]
              /\ result' = [result EXCEPT ![player] =
                                evaluate(result[player], terminal, player, reach[1 - player])]
    /\ UNCHANGED <<gameVars, callVars, evaluator, terminal, reach, node, info, parseVars, parVars>>

-----------------------------------------------------------------------------
(* Actions and nodes *)

\* Action: <<"None">>, <<"Fold">>, <<"Check">>, <<"Call">>, <<"Bet", n>>,
\* <<"Raise", n>>, <<"AllIn">>, <<"Chance", card>>; the derived Ord compares the
\* variant's position in the enum, then the payload
ActionIndex(a) ==
    CASE a[1] = "None" -> 0 [] a[1] = "Fold" -> 1 [] a[1] = "Check" -> 2
      [] a[1] = "Call" -> 3 [] a[1] = "Bet" -> 4 [] a[1] = "Raise" -> 5
      [] a[1] = "AllIn" -> 6 [] a[1] = "Chance" -> 7

ActionLess(a, b) ==
    \/ ActionIndex(a) < ActionIndex(b)
    \/ ActionIndex(a) = ActionIndex(b) /\ Len(a) = 2 /\ a[2] < b[2]

\* the order of the (Action, u16) tuples that push_actions sorts
ActionPairLess(x, y) == ActionLess(x[1], y[1]) \/ (x[1] = y[1] /\ x[2] < y[2])

\* PostFlopNode { player, turn, river, amount, ..Default::default() }; an Array2 is
\* kept as its shape
NewNode(player, turn, river, amount) ==
    [player |-> player, turn |-> turn, river |-> river, amount |-> amount,
     children |-> <<>>, iso_chances |-> <<>>, cum_regret |-> <<0, 0>>, strategy |-> <<0, 0>>]

is_terminal(nd) == BitSet(nd.player, 8)
is_chance(nd) == nd.player = PLAYER_CHANCE
num_actions(nd) == Len(nd.children)

\* size_of of the types the builder charges, on a 64-bit target
SizeOfNode == 184
SizeOfChild == 192
SizeOfIsoChance == 56
SizeOfSwap == 16
SizeOfF32 == 4

-----------------------------------------------------------------------------
(* push_actions *)

\* (x as f32 * ratio).round() as i32: rounds half away from zero
RoundMul(x, ratio) ==
    LET n == x * ratio[1]
        d == ratio[2]
    IN  IF n >= 0 THEN (2 * n + d) \div (2 * d) ELSE -((2 * (-n) + d) \div (2 * d))

Clamp(size, lo, hi) == IF size < lo THEN lo ELSE IF size > hi THEN hi ELSE size

CheckEquivalent(a) == a[1] \in {"None", "Check", "Chance"}

Candidates(cfg, nd) ==
    IF nd.turn = NOT_DEALT THEN cfg.flop_bet_sizes
    ELSE IF nd.river = NOT_DEALT THEN cfg.turn_bet_sizes
    ELSE cfg.river_bet_sizes

PlayerAfterCall(nd) ==
    IF nd.turn # NOT_DEALT /\ nd.river # NOT_DEALT THEN PLAYER_TERMINAL_FLAG
    ELSE PLAYER_CHANCE

\* a LastBetRelative candidate in an open-bet list makes push_actions panic
PushActionsPanics(cfg, nd, inf) ==
    /\ CheckEquivalent(inf.last_action)
    /\ inf.num_bet < cfg.max_num_bet
    /\ \E k \in 1..Len(At(Candidates(cfg, nd), nd.player).bet) :
           At(Candidates(cfg, nd), nd.player).bet[k].kind # "PotRelative"

\* the (action, next player) pairs before the sizes are adjusted
RawActions(cfg, nd, inf) ==
    LET player == nd.player
        player_opponent == 1 - nd.player
        player_bet == At(inf.last_bet, player)
        opponent_bet == At(inf.last_bet, player_opponent)
        bet_diff == opponent_bet - player_bet
        pot == cfg.initial_pot + 2 * (nd.amount + bet_diff)
        candidates == At(Candidates(cfg, nd), player)
        player_after_call == PlayerAfterCall(nd)
        player_after_check == IF player = PLAYER_OOP THEN player_opponent
                              ELSE player_after_call
    IN  IF CheckEquivalent(inf.last_action)
        THEN <<<<<<"Check">>, player_after_check>>>>
             \o (IF inf.num_bet < cfg.max_num_bet
                 THEN [k \in 1..Len(candidates.bet) |->
                          <<<<"Bet", RoundMul(pot, candidates.bet[k].ratio)>>, player_opponent>>]
                 ELSE <<>>)
        ELSE <<<<<<"Fold">>, PLAYER_FOLD_FLAG + player>>, <<<<"Call">>, player_after_call>>>>
             \o (IF ~inf.allin_flag /\ inf.num_bet < cfg.max_num_bet
                 THEN [k \in 1..Len(candidates.raise) |->
                          IF candidates.raise[k].kind = "PotRelative"
                          THEN <<<<"Raise", opponent_bet
                                     + RoundMul(pot, candidates.raise[k].ratio)>>, player_opponent>>
                          ELSE <<<<"Raise", RoundMul(opponent_bet, candidates.raise[k].ratio)>>,
                                 player_opponent>>]
                 ELSE <<>>)

MaxBet(cfg, nd, inf) == cfg.initial_stack - nd.amount + At(inf.last_bet, nd.player)
MinBet(cfg, nd, inf) ==
    LET opponent_bet == At(inf.last_bet, 1 - nd.player)
        bet_diff == opponent_bet - At(inf.last_bet, nd.player)
    IN  Min(MaxBet(cfg, nd, inf), opponent_bet + bet_diff)

\* a mutation of AdjustAction: a size clamped to max_bet stays a Bet or a Raise
AdjustActionKeepingBet(a, min_bet, max_bet) ==
    IF a[1] \in {"Bet", "Raise"} THEN <<a[1], Clamp(a[2], min_bet, max_bet)>> ELSE a

\* adjust bet sizes
AdjustAction(a, min_bet, max_bet) ==
    IF a[1] \in {"Bet", "Raise"}
    THEN LET adjusted_size == Clamp(a[2], min_bet, max_bet)
         IN  IF adjusted_size = max_bet THEN <<"AllIn">> ELSE <<a[1], adjusted_size>>
    ELSE a

AdjustedActions(cfg, nd, inf) ==
    LET raw == RawActions(cfg, nd, inf)
    IN  [k \in 1..Len(raw) |->
            <<AdjustAction(raw[k][1], MinBet(cfg, nd, inf), MaxBet(cfg, nd, inf)), raw[k][2]>>]

\* Vec::dedup: drops every element equal to the one before it
RECURSIVE Dedup(_)
Dedup(s) ==
    IF Len(s) <= 1 THEN s
    ELSE LET rest == Dedup(Tail(s))
         IN  IF Head(s) = Head(rest) THEN rest ELSE <<Head(s)>> \o rest

\* a mutation of SortedActions: duplicates are dropped but the list is not sorted
SortedActionsUnsorted(cfg, nd, inf) == Dedup(AdjustedActions(cfg, nd, inf))

\* actions.sort_unstable(); actions.dedup()
SortedActions(cfg, nd, inf) == Dedup(SortSeq(AdjustedActions(cfg, nd, inf), ActionPairLess))

\* a mutation of push_actions: the child of a Call keeps the node's amount
push_actions_call_unpaid(cfg, nd, inf) ==
    LET bet_diff == At(inf.last_bet, 1 - nd.player) - At(inf.last_bet, nd.player)
        actions == SortedActions(cfg, nd, inf)
    IN  [k \in 1..Len(actions) |->
            <<actions[k][1],
              NewNode(actions[k][2], nd.turn, nd.river,
                      IF actions[k][1][1] \in {"Bet", "Raise", "AllIn"}
                      THEN nd.amount + bet_diff ELSE nd.amount)>>]

\* node.children as push_actions leaves it
push_actions(cfg, nd, inf) ==
    LET bet_diff == At(inf.last_bet, 1 - nd.player) - At(inf.last_bet, nd.player)
        actions == SortedActions(cfg, nd, inf)
    IN  [k \in 1..Len(actions) |->
            <<actions[k][1],
              NewNode(actions[k][2], nd.turn, nd.river,
                      IF actions[k][1][1] \in {"Call", "Bet", "Raise", "AllIn"}
                      THEN nd.amount + bet_diff ELSE nd.amount)>>]

-----------------------------------------------------------------------------
(* push_chances *)

Suits == 0..3
RankOf(card) == card \div 4
SuitOf(card) == card % 4

\* flop_rankset[suit], a bit set of ranks, as the set of its ranks
flop_rankset(flop) ==
    [suit \in Suits |-> {RankOf(flop[k]) : k \in {m \in 1..3 : SuitOf(flop[m]) = suit}}]
turn_rankset(flop, turn) ==
    [suit \in Suits |-> flop_rankset(flop)[suit]
                        \cup (IF SuitOf(turn) = suit THEN {RankOf(turn)} ELSE {})]

\* the (suit1, suit2) pairs in the order of the two nested loops
SuitPairs == <<<<0, 1>>, <<0, 2>>, <<0, 3>>, <<1, 2>>, <<1, 3>>, <<2, 3>>>>

\* the loop that fills iso_suits; ranksets are the tables that must agree on the
\* two suits (flop_rankset on the turn deal, flop_rankset and turn_rankset on the
\* river deal)
RECURSIVE IsoSuitsLoop(_, _, _)
IsoSuitsLoop(k, iso_suits, ranksets) ==
    IF k > Len(SuitPairs) THEN iso_suits
    ELSE LET suit1 == SuitPairs[k][1]
             suit2 == SuitPairs[k][2]
         IN  IsoSuitsLoop(k + 1,
                 IF /\ iso_suits[suit2] = None
                    /\ \A m \in 1..Len(ranksets) : ranksets[m][suit1] = ranksets[m][suit2]
                 THEN [iso_suits EXCEPT ![suit2] = Some(suit1)] ELSE iso_suits,
                 ranksets)

IsoSuits(flop, turn) ==
    IsoSuitsLoop(1, [suit \in Suits |-> None],
                 IF turn = NOT_DEALT THEN <<flop_rankset(flop)>>
                 ELSE <<flop_rankset(flop), turn_rankset(flop, turn)>>)

\* swap_list[player] of the record for card and iso_card
RECURSIVE SwapListFrom(_, _, _, _)
SwapListFrom(i, cards, card, iso_card) ==
    IF i >= Len(cards) THEN <<>>
    ELSE LET c1 == At(cards, i)[1]
             c2 == At(cards, i)[2]
             j1 == binary_search(cards, <<iso_card, c2>>)
             j2 == binary_search(cards, <<c1, iso_card>>)
         IN  (IF c1 = card /\ j1 # None THEN <<<<i, j1[1]>>>> ELSE <<>>)
             \o (IF c2 = card /\ j2 # None THEN <<<<i, j2[1]>>>> ELSE <<>>)
             \o SwapListFrom(i + 1, cards, card, iso_card)
SwapList(cards, card, iso_card) == SwapListFrom(0, cards, card, iso_card)

AllCards == [k \in 1..NumCards |-> k - 1]

\* the cards the 0..52 pass turns into a normal chance, in the order of the pass
NormalCards(board_mask, iso_suits) ==
    SelectSeq(AllCards, LAMBDA card : /\ Shl1(card) \cap board_mask = {}
                                      /\ iso_suits[SuitOf(card)] = None)

\* the cards the pass turns into an isomorphic chance, in the order of the pass
IsomorphicCards(board_mask, iso_suits) ==
    SelectSeq(AllCards, LAMBDA card : /\ Shl1(card) \cap board_mask = {}
                                      /\ iso_suits[SuitOf(card)] # None)

\* a mutation of Indices: the position of a normal chance is not recorded
IndicesUnset(board_mask, iso_suits) == [card \in 0..(NumCards - 1) |-> 0]

\* the indices array when the pass is over: indices[card] is node.children.len() at
\* the moment card was pushed, and the initial 0 for every other card. An
\* isomorphic chance reads indices[iso_card] with iso_card < card, an entry the
\* pass no longer writes once it has reached card.
Indices(board_mask, iso_suits) ==
    [card \in 0..(NumCards - 1) |->
        IF Shl1(card) \cap board_mask = {} /\ iso_suits[SuitOf(card)] = None
        THEN Cardinality({c \in 0..(card - 1) : /\ Shl1(c) \cap board_mask = {}
                                                 /\ iso_suits[SuitOf(c)] = None})
        ELSE 0]

\* children and iso_chances as push_chances leaves them
push_chances(cfg, hand_cards, nd, inf) ==
    LET flop_mask == flop_mask_of(cfg.flop)
        board_mask == IF nd.turn = NOT_DEALT THEN flop_mask
                      ELSE flop_mask \cup Shl1(nd.turn)
        next_player == IF ~inf.allin_flag THEN PLAYER_OOP
                       ELSE IF nd.turn = NOT_DEALT THEN PLAYER_CHANCE
                       ELSE PLAYER_TERMINAL_FLAG
        iso_suits == IsoSuits(cfg.flop, nd.turn)
        indices == Indices(board_mask, iso_suits)
        normal == NormalCards(board_mask, iso_suits)
        isomorphic == IsomorphicCards(board_mask, iso_suits)
    IN  [children |->
            [k \in 1..Len(normal) |->
                <<<<"Chance", normal[k]>>,
                  IF nd.turn = NOT_DEALT
                  THEN NewNode(next_player, normal[k], NOT_DEALT, nd.amount)
                  ELSE NewNode(next_player, nd.turn, normal[k], nd.amount)>>],
         iso_chances |->
            [k \in 1..Len(isomorphic) |->
                LET card == isomorphic[k]
                    iso_card == RankOf(card) * 4 + iso_suits[SuitOf(card)][1]
                IN  [index |-> indices[iso_card],
                     swap_list |-> [p \in 0..1 |-> SwapList(hand_cards[p], card, iso_card)]]]]

-----------------------------------------------------------------------------
(* build_tree_recursive *)

\* the node as its own invocation of build_tree_recursive leaves it, before the
\* recursion into the children; push_actions panics before it pushes anything
Pushed(cfg, hand_cards, nd, inf) ==
    IF is_terminal(nd) THEN nd
    ELSE IF is_chance(nd)
    THEN LET dealt == push_chances(cfg, hand_cards, nd, inf)
         IN  [nd EXCEPT !.children = dealt.children, !.iso_chances = dealt.iso_chances]
    ELSE IF PushActionsPanics(cfg, nd, inf) THEN nd
    ELSE [nd EXCEPT !.children = push_actions(cfg, nd, inf)]

\* a mutation of ChildInfo: an AllIn leaves allin_flag as it was
ChildInfoAllinUnflagged(cfg, nd, inf, action) ==
    IF is_chance(nd)
    THEN [last_action |-> action, last_bet |-> <<0, 0>>, num_bet |-> 0,
          allin_flag |-> inf.allin_flag]
    ELSE LET p == nd.player + 1 IN
         CASE action[1] = "Call" ->
                [inf EXCEPT !.last_action = action,
                            !.last_bet[p] = At(inf.last_bet, 1 - nd.player)]
           [] action[1] \in {"Bet", "Raise"} ->
                [inf EXCEPT !.last_action = action, !.last_bet[p] = action[2],
                            !.num_bet = @ + 1]
           [] action[1] = "AllIn" ->
                [inf EXCEPT !.last_action = action,
                            !.last_bet[p] = @ + cfg.initial_stack - nd.amount,
                            !.num_bet = @ + 1]
           [] OTHER -> [inf EXCEPT !.last_action = action]

\* the BuildTreeInfo handed to the child reached by action
ChildInfo(cfg, nd, inf, action) ==
    IF is_chance(nd)
    THEN [last_action |-> action, last_bet |-> <<0, 0>>, num_bet |-> 0,
          allin_flag |-> inf.allin_flag]
    ELSE LET p == nd.player + 1 IN
         CASE action[1] = "Call" ->
                [inf EXCEPT !.last_action = action,
                            !.last_bet[p] = At(inf.last_bet, 1 - nd.player)]
           [] action[1] \in {"Bet", "Raise"} ->
                [inf EXCEPT !.last_action = action, !.last_bet[p] = action[2],
                            !.num_bet = @ + 1]
           [] action[1] = "AllIn" ->
                [inf EXCEPT !.last_action = action,
                            !.last_bet[p] = @ + cfg.initial_stack - nd.amount,
                            !.num_bet = @ + 1, !.allin_flag = TRUE]
           [] OTHER -> [inf EXCEPT !.last_action = action]

\* what one invocation adds to current_memory_usage and additional_memory_usage
Charges(hand_cards, nd) ==
    IF is_terminal(nd) THEN <<0, 0>>
    ELSE IF is_chance(nd)
    THEN <<SeqSum([k \in 1..Len(nd.iso_chances) |->
               SizeOfSwap * (Len(nd.iso_chances[k].swap_list[0])
                             + Len(nd.iso_chances[k].swap_list[1]))])
           + Len(nd.children) * SizeOfChild + Len(nd.iso_chances) * SizeOfIsoChance,
           0>>
    ELSE <<Len(nd.children) * SizeOfChild,
           2 * num_actions(nd) * Len(hand_cards[nd.player]) * SizeOfF32>>

\* the counters' increase of two parts of the tree taken together
AddCharges(a, b) ==
    [current |-> a.current + b.current, additional |-> a.additional + b.additional,
     panicked |-> a.panicked \/ b.panicked]

\* the two counters' increase over the whole subtree of nd, and whether an
\* invocation in it panics. BuiltCharges is the invocation on nd once it has
\* pushed nd's children (built), ChildrenCharges the for_each over the children
\* lo..hi, summed by halves.
RECURSIVE SubtreeCharges(_, _, _, _), ChildrenCharges(_, _, _, _, _, _)
ChildrenCharges(cfg, hand_cards, built, inf, lo, hi) ==
    IF lo > hi THEN [current |-> 0, additional |-> 0, panicked |-> FALSE]
    ELSE IF lo = hi
    THEN SubtreeCharges(cfg, hand_cards, built.children[lo][2],
                        ChildInfo(cfg, built, inf, built.children[lo][1]))
    ELSE AddCharges(ChildrenCharges(cfg, hand_cards, built, inf, lo, (lo + hi) \div 2),
                    ChildrenCharges(cfg, hand_cards, built, inf, (lo + hi) \div 2 + 1, hi))

OwnCharges(own) == [current |-> own[1], additional |-> own[2], panicked |-> FALSE]

BuiltCharges(cfg, hand_cards, built, inf) ==
    AddCharges(OwnCharges(Charges(hand_cards, built)),
               ChildrenCharges(cfg, hand_cards, built, inf, 1, Len(built.children)))

SubtreeCharges(cfg, hand_cards, nd, inf) ==
    IF ~is_terminal(nd) /\ ~is_chance(nd) /\ PushActionsPanics(cfg, nd, inf)
    THEN [current |-> 0, additional |-> 0, panicked |-> TRUE]
    ELSE BuiltCharges(cfg, hand_cards, Pushed(cfg, hand_cards, nd, inf), inf)

RootInfo == [last_action |-> <<"None">>, last_bet |-> <<0, 0>>, num_bet |-> 0,
             allin_flag |-> FALSE]

-----------------------------------------------------------------------------
(* flop_from_str and card_from_str *)

Ok(x) == <<"Ok", x>>
Err(msg) == <<"Err", msg>>

\* char::is_whitespace on the characters of the model
Whitespace == {" ", "\t"}

\* the match on rank_char: 'A' => 12, .., 'T' => 8, '2'..='9' => rank_char - b'2'
RankChars == <<"2", "3", "4", "5", "6", "7", "8", "9", "T", "J", "Q", "K", "A">>
\* the match on suit_char: 'c' => 0, 'd' => 1, 'h' => 2, 's' => 3
SuitChars == <<"c", "d", "h", "s">>
CharIndex(table, c) == CHOOSE k \in 1..Len(table) : table[k] = c

\* card_from_str on the iterator chars: the Result and the iterator it leaves.
\* Both characters are taken before either is matched.
card_from_str(chars) ==
    IF Len(chars) < 2
    THEN [res |-> Err("parse failed"), rest |-> <<>>]
    ELSE IF chars[1] \notin SeqToSet(RankChars)
    THEN [res |-> Err("expected rank"), rest |-> SubSeq(chars, 3, Len(chars))]
    ELSE IF chars[2] \notin SeqToSet(SuitChars)
    THEN [res |-> Err("expected suit"), rest |-> SubSeq(chars, 3, Len(chars))]
    ELSE [res |-> Ok((CharIndex(RankChars, chars[1]) - 1) * 4
                        + (CharIndex(SuitChars, chars[2]) - 1)),
          rest |-> SubSeq(chars, 3, Len(chars))]

\* chars.by_ref().skip_while(|c| c.is_whitespace()): the iterator from its first
\* character that is no whitespace on
RECURSIVE skip_while_whitespace(_)
skip_while_whitespace(chars) ==
    IF chars # <<>> /\ Head(chars) \in Whitespace THEN skip_while_whitespace(Tail(chars))
    ELSE chars

\* a mutation of SortThree: the result is left in the order of the text
SortThreeSkipped(r) == r

\* result.sort_unstable() on three cards
SortThree(r) ==
    <<Min(r[1], Min(r[2], r[3])),
      r[1] + r[2] + r[3] - Min(r[1], Min(r[2], r[3])) - Max(r[1], Max(r[2], r[3])),
      Max(r[1], Max(r[2], r[3]))>>

\* the uniqueness check on the sorted result
CheckUnique(cards) ==
    IF cards[1] = cards[2] \/ cards[2] = cards[3] THEN Err("cards must be unique")
    ELSE Ok(cards)

\* flop_from_str from the third card_from_str on
ThirdCard(c1, c2, third) ==
    IF third.res[1] = "Err" THEN third.res
    ELSE IF third.rest # <<>> THEN Err("expected three cards")
    ELSE CheckUnique(SortThree(<<c1, c2, third.res[2]>>))

\* flop_from_str from the second card_from_str on
SecondCard(c1, second) ==
    IF second.res[1] = "Err" THEN second.res
    ELSE ThirdCard(c1, second.res[2], card_from_str(skip_while_whitespace(second.rest)))

FirstCard(first) ==
    IF first.res[1] = "Err" THEN first.res
    ELSE SecondCard(first.res[2], card_from_str(skip_while_whitespace(first.rest)))

flop_from_str(s) == FirstCard(card_from_str(s))

-----------------------------------------------------------------------------
(* Bounds and input domains *)

MaxScore == 2       \* the library's scores of live hands range over 1..MaxScore
MaxReach == 1       \* reach values range over 0..MaxReach
MaxMemoryMb == 1    \* memory caps range over None and Some(0), .., Some(MaxMemoryMb)

PotRelative(n, d) == [kind |-> "PotRelative", ratio |-> <<n, d>>]
LastBetRelative(n, d) == [kind |-> "LastBetRelative", ratio |-> <<n, d>>]
NoBetSizes == [bet |-> <<>>, raise |-> <<>>]
PotBet == [bet |-> <<PotRelative(1, 1)>>, raise |-> <<>>]

\* Range tables. In RangesA the two sides hold an identical hand, (0,1) and (1,5)
\* share a card, (4,8) holds the turn card of BoardCard; in RangesB (5,9) holds
\* its river card and (22,43) a flop card.
RangesA ==
    [p \in 0..1 |-> IF p = 0 THEN (<<0, 1>> :> 1) @@ (<<4, 8>> :> 2)
                    ELSE (<<0, 1>> :> 2) @@ (<<1, 5>> :> 1) @@ (<<8, 12>> :> 1)]
RangesB ==
    [p \in 0..1 |-> IF p = 0 THEN (<<0, 1>> :> 1) @@ (<<5, 9>> :> 1)
                    ELSE (<<8, 12>> :> 1) @@ (<<22, 43>> :> 3)]

\* the (turn, river) boards whose hand_strength entry the model keeps
PrecomputedBoards == {<<4, 9>>}

\* flop QsKsAs, a pot of 3 and stacks of 3: every bet is an all-in
BaseConfig(rg, flop_sizes, turn_sizes, river_sizes) ==
    [flop |-> <<43, 47, 51>>, initial_pot |-> 3, initial_stack |-> 3, range |-> rg,
     flop_bet_sizes |-> flop_sizes, turn_bet_sizes |-> turn_sizes,
     river_bet_sizes |-> river_sizes, max_num_bet |-> 1]

NoBets == <<NoBetSizes, NoBetSizes>>
OopBets == <<PotBet, NoBetSizes>>
IpBets == <<NoBetSizes, PotBet>>

CheckedDown == BaseConfig(RangesA, NoBets, NoBets, NoBets)
BettingA == BaseConfig(RangesA, OopBets, OopBets, IpBets)
BettingB == BaseConfig(RangesB, OopBets, OopBets, IpBets)
\* an open-bet list that holds a LastBetRelative candidate
OpenLastBetRelative ==
    [CheckedDown EXCEPT !.flop_bet_sizes =
        <<[bet |-> <<LastBetRelative(2, 1)>>, raise |-> <<>>], NoBetSizes>>]

\* the configurations of the model that pass check_config
BuildConfigs == <<CheckedDown, BettingA, BettingB, OpenLastBetRelative>>

\* PostFlopNode::default()
DefaultNode == NewNode(PLAYER_OOP, NOT_DEALT, NOT_DEALT, 0)

HandLists(cfg) == [p \in 0..1 |-> HandList(cfg.range[p])]

\* what build_tree_recursive(root, info) of init_root adds to the two counters for
\* each configuration of BuildConfigs, as a sequence in the order of BuildConfigs
BuildTable ==
    <<>> \o [k \in 1..Len(BuildConfigs) |->
                SubtreeCharges(BuildConfigs[k], HandLists(BuildConfigs[k]), DefaultNode,
                               RootInfo)]

TreeCharges(cfg) == BuildTable[CHOOSE k \in 1..Len(BuildConfigs) : BuildConfigs[k] = cfg]

-----------------------------------------------------------------------------
(* allocate_memory_recursive, init_root and update_config *)

\* The game's root is held as the root node itself (children as push_actions made
\* them) and a summary of the nodes below it: the configuration they were built
\* for, and whether they are "none" (root has no children), "partial" (the build
\* is under way or has panicked), "built" (no array allocated) or "allocated".
NoTree == [built_for |-> None, state |-> "none"]
TreeBelow(cfg, state) == [built_for |-> Some(cfg), state |-> state]

\* the node's part of allocate_memory_recursive; Array2::zeros is kept as its shape
Allocated(nd, hand_cards) ==
    IF is_terminal(nd) \/ is_chance(nd) THEN nd
    ELSE [nd EXCEPT !.cum_regret = <<num_actions(nd), Len(hand_cards[nd.player])>>,
                    !.strategy = <<num_actions(nd), Len(hand_cards[nd.player])>>]

\* a mutation of check_memory_usage: the arrays are allocated before the check
check_memory_usage_allocating_first(charges, built, cfg, hand_cards, cap) ==
    [ret |-> IF charges.panicked THEN "panicked"
             ELSE IF /\ cap # None
                     /\ SizeOfNode + charges.current + charges.additional
                            > cap[1] * 1024 * 1024
             THEN ErrMemory ELSE "Ok",
     root |-> IF charges.panicked
              THEN [node |-> built, below |-> TreeBelow(cfg, "partial")]
              ELSE [node |-> Allocated(built, hand_cards),
                    below |-> TreeBelow(cfg, "allocated")],
     current_memory_usage |-> SizeOfNode + charges.current,
     additional_memory_usage |-> charges.additional]

\* init_root from the return of build_tree_recursive on: charges is what the
\* build added to the two counters, built the root as its own invocation left
\* it. The memory usage check returns the error before
\* allocate_memory_recursive runs.
check_memory_usage(charges, built, cfg, hand_cards, cap) ==
    [ret |-> IF charges.panicked THEN "panicked"
             ELSE IF /\ cap # None
                     /\ SizeOfNode + charges.current + charges.additional
                            > cap[1] * 1024 * 1024
             THEN ErrMemory ELSE "Ok",
     root |-> IF charges.panicked
              THEN [node |-> built, below |-> TreeBelow(cfg, "partial")]
              ELSE IF /\ cap # None
                      /\ SizeOfNode + charges.current + charges.additional
                             > cap[1] * 1024 * 1024
              THEN [node |-> built, below |-> TreeBelow(cfg, "built")]
              ELSE [node |-> Allocated(built, hand_cards),
                    below |-> TreeBelow(cfg, "allocated")],
     current_memory_usage |-> SizeOfNode + charges.current,
     additional_memory_usage |-> charges.additional]

\* init_root on the game's root: the Result, the root it leaves and the two
\* counters as read after build_tree_recursive. root.children.clear() leaves the
\* root's own cum_regret and strategy as they were.
init_root(game_root, cfg, hand_cards, cap) ==
    check_memory_usage(TreeCharges(cfg),
                       Pushed(cfg, hand_cards, [game_root.node EXCEPT !.children = <<>>],
                              RootInfo),
                       cfg, hand_cards, cap)

\* the hands the library is asked to score for cfg: those of either list that are
\* off the flop and off a board of PrecomputedBoards
ScoredHands(cfg) ==
    {h \in SeqToSet(HandList(cfg.range[0])) \cup SeqToSet(HandList(cfg.range[1])) :
        \E b \in PrecomputedBoards :
            {h[1], h[2]} \cap {cfg.flop[1], cfg.flop[2], cfg.flop[3], b[1], b[2]} = {}}

\* hand_strength, restricted to the boards of PrecomputedBoards
HandStrengthTable(flop, hand_cards, eval) ==
    [k \in {board_index(b[1], b[2]) : b \in PrecomputedBoards} |->
        LET b == CHOOSE b \in PrecomputedBoards : board_index(b[1], b[2]) = k
        IN  BoardStrength(flop, Min(b[1], b[2]), Max(b[1], b[2]), hand_cards, eval)]

\* the fields init_range, init_hand_strength and init_root write, the Result and
\* the two counters, from the hand lists of init_range and the outcome of
\* init_root
Initialized(cfg, hand_cards, eval, rooted) ==
    [num_combinations_inv |-> <<1, NumCombinations(cfg)>>,
     private_hand_cards |-> hand_cards,
     initial_reach |-> [p \in 0..1 |-> ReachList(cfg.range[p])],
     same_hand_index |-> [p \in 0..1 |-> SameHandIndex(hand_cards[p], hand_cards[1 - p])],
     hand_strength |-> HandStrengthTable(cfg.flop, hand_cards, eval),
     root |-> rooted.root, ret |-> rooted.ret,
     current_memory_usage |-> rooted.current_memory_usage,
     additional_memory_usage |-> rooted.additional_memory_usage]

\* init(max_memory_mb) on a game whose config is cfg and whose root is game_root
init(cfg, game_root, eval, cap) ==
    Initialized(cfg, HandLists(cfg), eval, init_root(game_root, cfg, HandLists(cfg), cap))

\* the game object takes the fields of game
Written(game) ==
    /\ num_combinations_inv' = game.num_combinations_inv
    /\ private_hand_cards' = game.private_hand_cards
    /\ initial_reach' = game.initial_reach
    /\ same_hand_index' = game.same_hand_index
    /\ hand_strength' = game.hand_strength
    /\ root' = game.root
    /\ ret' = game.ret
    /\ current_memory_usage' = game.current_memory_usage
    /\ additional_memory_usage' = game.additional_memory_usage

\* update_config(config, max_memory_mb), and PostFlopGame::new when the game is
\* the default one. self.config is assigned first; check_config's error returns
\* before any other field is written; init_range and init_hand_strength write
\* theirs before init_root runs.
UpdateConfig(cfg, cap) ==
    /\ ret # "panicked"
    /\ config' = cfg
    /\ max_memory_mb' = cap
    /\ IF check_config(cfg) # "Ok"
       THEN /\ ret' = check_config(cfg)
            /\ current_memory_usage' = None
            /\ additional_memory_usage' = None
            /\ UNCHANGED <<num_combinations_inv, initial_reach, private_hand_cards,
                           same_hand_index, hand_strength, root>>
       ELSE Written(init(cfg, root, evaluator, cap))
    /\ UNCHANGED <<evaluator, evalVars, treeVars, parseVars, parVars>>

-----------------------------------------------------------------------------
(* The game object's life: Spec *)

\* GameConfig::default()
DefaultConfig ==
    [flop |-> <<NOT_DEALT, NOT_DEALT, NOT_DEALT>>, initial_pot |-> 0, initial_stack |-> 0,
     range |-> [p \in 0..1 |-> <<>>],
     flop_bet_sizes |-> NoBets, turn_bet_sizes |-> NoBets, river_bet_sizes |-> NoBets,
     max_num_bet |-> 0]

EmptyRange == <<>>
\* both sides hold only the hand (0,1)
SameHandRanges == [p \in 0..1 |-> (<<0, 1>> :> 1)]
\* every hand of OOP holds a flop card
OnFlopRanges == [p \in 0..1 |-> IF p = 0 THEN (<<0, 43>> :> 1) @@ (<<47, 51>> :> 1)
                                ELSE (<<0, 1>> :> 1)]
\* a table whose only entry is 0
ZeroRange == (<<0, 1>> :> 0)

\* configurations check_config rejects
RejectedConfigs ==
    {[CheckedDown EXCEPT !.flop = f] :
        f \in {<<NOT_DEALT, 47, 51>>, <<43, 47, NOT_DEALT>>, <<43, 47, 52>>, <<60, 47, 47>>,
               <<43, 43, 51>>, <<43, 51, 51>>, <<51, 47, 51>>}}
    \cup {[CheckedDown EXCEPT !.initial_pot = v] : v \in {0, -1}}
    \cup {[CheckedDown EXCEPT !.initial_stack = v] : v \in {0, -1}}
    \cup {[CheckedDown EXCEPT !.initial_pot = 0, !.initial_stack = 0],
          [CheckedDown EXCEPT !.flop = <<43, 43, 51>>, !.initial_pot = 0],
          [CheckedDown EXCEPT !.range[0] = EmptyRange],
          [CheckedDown EXCEPT !.range[1] = EmptyRange],
          [CheckedDown EXCEPT !.range[1] = ZeroRange],
          [BettingA EXCEPT !.range = SameHandRanges],
          [BettingA EXCEPT !.range = OnFlopRanges],
          [OpenLastBetRelative EXCEPT !.range = SameHandRanges]}

Configs == SeqToSet(BuildConfigs) \cup RejectedConfigs

Caps == {None} \cup {Some(mb) : mb \in 0..MaxMemoryMb}

\* the hands the library scores for some configuration of the model
AllScoredHands == UNION {ScoredHands(BuildConfigs[k]) : k \in 1..Len(BuildConfigs)}

\* no terminal node is being evaluated and no node is being built
IdleEvaluation ==
    /\ terminal = DefaultNode
    /\ reach = [p \in 0..1 |-> <<>>]
    /\ result = [p \in 0..1 |-> <<>>]
    /\ evaluated = [p \in 0..1 |-> "no"]
IdleBuild == node = DefaultNode /\ info = RootInfo
\* flop_from_str is not being called
IdleParse == flop_str = <<>> /\ parsed = None
\* no invocation of build_tree_recursive is in flight
IdlePar == builders = {} /\ nodes = <<>>

\* PostFlopGame::default()
Init ==
    /\ config = DefaultConfig
    /\ num_combinations_inv = <<0, 1>>
    /\ initial_reach = [p \in 0..1 |-> <<>>]
    /\ private_hand_cards = [p \in 0..1 |-> <<>>]
    /\ same_hand_index = [p \in 0..1 |-> <<>>]
    /\ hand_strength = <<>>
    /\ root = [node |-> DefaultNode, below |-> NoTree]
    /\ ret = "none" /\ max_memory_mb = None
    /\ current_memory_usage = None /\ additional_memory_usage = None
    /\ \E score \in 1..MaxScore : evaluator = [h \in AllScoredHands |-> score]
    /\ IdleEvaluation /\ IdleBuild /\ IdleParse /\ IdlePar

Next == \E cfg \in Configs, cap \in Caps : UpdateConfig(cfg, cap)

Spec == Init /\ [][Next]_vars

-----------------------------------------------------------------------------
(* A built game at a terminal node: SpecEval *)

\* terminal nodes of the trees of BettingA and BettingB with the board
\* (4, 9): IP folds to the flop bet and to the turn bet, OOP folds to the river
\* bet, and the showdowns after two checks and after a called bet
EvalTerminals ==
    {NewNode(PLAYER_FOLD_FLAG + PLAYER_IP, NOT_DEALT, NOT_DEALT, 0),
     NewNode(PLAYER_FOLD_FLAG + PLAYER_IP, 4, NOT_DEALT, 0),
     NewNode(PLAYER_FOLD_FLAG + PLAYER_OOP, 4, 9, 0),
     NewNode(PLAYER_TERMINAL_FLAG, 4, 9, 0),
     NewNode(PLAYER_TERMINAL_FLAG, 4, 9, 3)}

\* the game object holds the fields of game
Holds(game) ==
    /\ num_combinations_inv = game.num_combinations_inv
    /\ private_hand_cards = game.private_hand_cards
    /\ initial_reach = game.initial_reach
    /\ same_hand_index = game.same_hand_index
    /\ hand_strength = game.hand_strength
    /\ root = game.root
    /\ ret = game.ret
    /\ current_memory_usage = game.current_memory_usage
    /\ additional_memory_usage = game.additional_memory_usage

\* the state PostFlopGame::new(cfg, None) returns
BuiltGame(cfg) ==
    /\ config = cfg
    /\ max_memory_mb = None
    /\ Holds(init(cfg, [node |-> DefaultNode, below |-> NoTree], evaluator, None))

\* A game built by PostFlopGame::new(cfg, None), at a terminal node with arbitrary
\* reach vectors and arbitrary prior contents of the result buffers.
InitEval ==
    \E cfg \in {BettingA, BettingB} :
        /\ evaluator \in [ScoredHands(cfg) -> 1..MaxScore]
        /\ BuiltGame(cfg)
        /\ terminal \in EvalTerminals
        /\ reach \in [0..1 -> UNION {[1..n -> 0..MaxReach] : n \in 1..3}]
        /\ \A p \in 0..1 : Len(reach[p]) = Len(private_hand_cards[p])
        /\ \E g \in {0, 7} :
               result = [p \in 0..1 |-> [k \in 1..Len(private_hand_cards[p]) |-> g]]
        /\ evaluated = [p \in 0..1 |-> "no"]
        /\ IdleBuild /\ IdleParse /\ IdlePar

NextEval == Evaluate(0) \/ Evaluate(1)

SpecEval == InitEval /\ [][NextEval]_vars

-----------------------------------------------------------------------------
(* The tree build, one invocation of build_tree_recursive at a time: SpecTree *)

\* two open-bet sizes listed larger first and a repeated one; a raise relative to
\* the last bet and two relative to the pot
RichSizes ==
    [bet |-> <<PotRelative(1, 1), PotRelative(1, 2), PotRelative(1, 2)>>,
     raise |-> <<LastBetRelative(3, 1), PotRelative(1, 2), PotRelative(2, 1)>>]
RichBets == <<RichSizes, RichSizes>>

\* an open-bet size and a raise size that round to 0 chips on a pot of 4, and an
\* open-bet size beyond the stack
TinySizes ==
    [bet |-> <<PotRelative(1, 10), PotRelative(10, 1)>>, raise |-> <<PotRelative(1, 10)>>]
TinyBets == <<TinySizes, TinySizes>>

\* betting on one street only, with a pot of 4, stacks of 20 and up to 3 bets
RichConfig(flop_sizes, turn_sizes, river_sizes) ==
    [BaseConfig(RangesA, flop_sizes, turn_sizes, river_sizes)
        EXCEPT !.initial_pot = 4, !.initial_stack = 20, !.max_num_bet = 3]

\* flops of one, two and three suits, with and without a pair
TreeFlops == {<<43, 47, 51>>, <<0, 4, 9>>, <<0, 1, 2>>, <<0, 5, 10>>, <<3, 6, 7>>}

TreeConfigs ==
    {RichConfig(RichBets, NoBets, NoBets), RichConfig(NoBets, RichBets, NoBets),
     RichConfig(NoBets, NoBets, RichBets), RichConfig(TinyBets, NoBets, NoBets),
     BettingA, BettingB}
    \cup {[CheckedDown EXCEPT !.flop = f] : f \in TreeFlops}

\* init_root has called build_tree_recursive on the root, which has pushed the
\* root's actions. The counters hold what the invocations on the path to the node
\* at hand have added: the invocations on the other children add theirs in any
\* order, and nothing reads the counters before the build is over.
InitTree ==
    \E cfg \in TreeConfigs :
        /\ check_config(cfg) = "Ok"
        /\ \E score \in 1..MaxScore : evaluator = [h \in ScoredHands(cfg) |-> score]
        /\ config = cfg
        /\ num_combinations_inv = <<1, NumCombinations(cfg)>>
        /\ private_hand_cards = HandLists(cfg)
        /\ initial_reach = [p \in 0..1 |-> ReachList(cfg.range[p])]
        /\ same_hand_index = [p \in 0..1 |->
               SameHandIndex(HandLists(cfg)[p], HandLists(cfg)[1 - p])]
        /\ hand_strength = HandStrengthTable(cfg.flop, HandLists(cfg), evaluator)
        /\ node = Pushed(cfg, HandLists(cfg), DefaultNode, RootInfo)
        /\ info = RootInfo
        /\ root = [node |-> node, below |-> TreeBelow(cfg, "partial")]
        /\ ret = "none" /\ max_memory_mb = None
        /\ current_memory_usage = SizeOfNode + Charges(HandLists(cfg), node)[1]
        /\ additional_memory_usage = Charges(HandLists(cfg), node)[2]
        /\ IdleEvaluation /\ IdleParse /\ IdlePar

\* the invocation on child k of the node at hand, up to its push
Descend(k) ==
    /\ k \in 1..Len(node.children)
    /\ info' = ChildInfo(config, node, info, node.children[k][1])
    /\ node' = Pushed(config, private_hand_cards, node.children[k][2], info')
    /\ current_memory_usage' = current_memory_usage + Charges(private_hand_cards, node')[1]
    /\ additional_memory_usage' =
           additional_memory_usage + Charges(private_hand_cards, node')[2]
    /\ UNCHANGED <<gameVars, ret, max_memory_mb, evaluator, evalVars, parseVars, parVars>>

\* the recursion of a chance node (par_iter over the dealt cards)
DescendChance == is_chance(node) /\ \E k \in 1..NumCards : Descend(k)

\* the recursion of a player node (par_iter over the actions)
DescendAction == ~is_chance(node) /\ ~is_terminal(node) /\ \E k \in 1..8 : Descend(k)

NextTree == DescendChance \/ DescendAction

SpecTree == InitTree /\ [][NextTree]_vars

-----------------------------------------------------------------------------
(* init_hand_strength, one board at a time: SpecStrength *)

\* both sides hold a hand with the turn card of the board (4, 9)
RangesC ==
    [p \in 0..1 |-> IF p = 0 THEN (<<0, 1>> :> 1) @@ (<<4, 8>> :> 2)
                    ELSE (<<4, 12>> :> 1) @@ (<<8, 12>> :> 1)]

StrengthConfigs ==
    {CheckedDown, BaseConfig(RangesB, NoBets, NoBets, NoBets),
     BaseConfig(RangesC, NoBets, NoBets, NoBets)}

\* the (board1, board2) closures the model runs; (4, 43) and (47, 50) hold a flop
\* card, (50, 51) is the last board of the pass
StrengthBoards == {<<0, 1>>, <<4, 9>>, <<8, 12>>, <<4, 43>>, <<47, 50>>, <<49, 50>>, <<50, 51>>}

\* the number of boards the (0..52).flat_map(|board1| (board1 + 1..52)) pass
\* yields before (board1, board2): its position in the collected table
RECURSIVE BoardsBefore(_)
BoardsBefore(board1) ==
    IF board1 = 0 THEN 0 ELSE BoardsBefore(board1 - 1) + (NumCards - board1)
CollectPosition(board1, board2) == BoardsBefore(board1) + (board2 - board1 - 1)

\* the hands of either list
ListedHands(cfg) == SeqToSet(HandList(cfg.range[0])) \cup SeqToSet(HandList(cfg.range[1]))

\* init_range has run; no closure of init_hand_strength has completed
InitStrength ==
    \E cfg \in StrengthConfigs :
        /\ evaluator \in [ListedHands(cfg) -> 1..MaxScore]
        /\ config = cfg
        /\ num_combinations_inv = <<1, NumCombinations(cfg)>>
        /\ private_hand_cards = HandLists(cfg)
        /\ initial_reach = [p \in 0..1 |-> ReachList(cfg.range[p])]
        /\ same_hand_index = [p \in 0..1 |->
               SameHandIndex(HandLists(cfg)[p], HandLists(cfg)[1 - p])]
        /\ hand_strength = <<>>
        /\ root = [node |-> DefaultNode, below |-> NoTree]
        /\ ret = "none" /\ max_memory_mb = None
        /\ current_memory_usage = None /\ additional_memory_usage = None
        /\ IdleEvaluation /\ IdleBuild /\ IdleParse /\ IdlePar

\* one closure of the parallel pass completes; collect() puts its value at the
\* position of (board1, board2) in the pass, whenever it completes
ComputeBoard ==
    \E b \in StrengthBoards :
        /\ CollectPosition(b[1], b[2]) \notin DOMAIN hand_strength
        /\ hand_strength' =
               hand_strength @@ (CollectPosition(b[1], b[2]) :>
                   BoardStrength(config.flop, b[1], b[2], private_hand_cards, evaluator))
        /\ UNCHANGED <<config, num_combinations_inv, initial_reach, private_hand_cards,
                       same_hand_index, root, callVars, evaluator, evalVars, treeVars,
                       parseVars, parVars>>

NextStrength == ComputeBoard

SpecStrength == InitStrength /\ [][NextStrength]_vars

-----------------------------------------------------------------------------
(* An isomorphic chance replayed on its canonical child: SpecIso *)

\* the turn card Js on the flop QsKsAs: on the river deal the suits c, d and h
\* have equal rank sets, so d and h are isomorphic to c
IsoTurn == 39
\* the river cards 2c 2d 2h 3c 3d 3h
IsoRivers == {0, 1, 2, 4, 5, 6}

\* In IsoRangesA OOP holds 2c3d and its image 2h3d, IP holds 2c4d without an
\* image; in IsoRangesB OOP holds the pair 2d2h, whose image under 2h -> 2c is
\* the pair 2c2d.
IsoRangesA ==
    [p \in 0..1 |-> IF p = 0 THEN (<<0, 5>> :> 1) @@ (<<2, 5>> :> 1)
                    ELSE (<<0, 9>> :> 1) @@ (<<8, 12>> :> 1)]
IsoRangesB ==
    [p \in 0..1 |-> IF p = 0 THEN (<<0, 1>> :> 1) @@ (<<1, 2>> :> 1) @@ (<<4, 8>> :> 1)
                    ELSE (<<0, 5>> :> 1) @@ (<<8, 12>> :> 1)]

\* OOP's pot-sized flop bet is an all-in
IsoConfigs == {BaseConfig(IsoRangesA, OopBets, NoBets, NoBets),
               BaseConfig(IsoRangesB, OopBets, NoBets, NoBets)}

\* the BuildTreeInfo of the turn child below a called all-in
IsoInfo == [last_action |-> <<"Chance", IsoTurn>>, last_bet |-> <<0, 0>>, num_bet |-> 0,
            allin_flag |-> TRUE]

\* hand_strength, restricted to the boards (IsoTurn, river) of IsoRivers
IsoStrengthTable(flop, hand_cards, eval) ==
    [k \in {board_index(IsoTurn, r) : r \in IsoRivers} |->
        LET r == CHOOSE r \in IsoRivers : board_index(IsoTurn, r) = k
        IN  BoardStrength(flop, Min(IsoTurn, r), Max(IsoTurn, r), hand_cards, eval)]

\* the library's score does not depend on suits when no flush is possible
SuitBlind(eval) ==
    \A h, g \in DOMAIN eval :
        (RankOf(h[1]) = RankOf(g[1]) /\ RankOf(h[2]) = RankOf(g[2])) => eval[h] = eval[g]

\* a transposition list applied to a reach or cfv vector, one pair after another
RECURSIVE ApplySwaps(_, _)
ApplySwaps(vec, swap_list) ==
    IF swap_list = <<>> THEN vec
    ELSE LET i == Head(swap_list)[1] + 1
             j == Head(swap_list)[2] + 1
         IN  ApplySwaps([vec EXCEPT ![i] = vec[j], ![j] = vec[i]], Tail(swap_list))

\* A built game at the river deal below a called all-in, with arbitrary reach
\* vectors and zeroed result buffers.
InitIso ==
    \E cfg \in IsoConfigs :
        /\ check_config(cfg) = "Ok"
        /\ evaluator \in {e \in [ListedHands(cfg) -> 1..MaxScore] : SuitBlind(e)}
        /\ config = cfg
        /\ num_combinations_inv = <<1, NumCombinations(cfg)>>
        /\ private_hand_cards = HandLists(cfg)
        /\ initial_reach = [p \in 0..1 |-> ReachList(cfg.range[p])]
        /\ same_hand_index = [p \in 0..1 |->
               SameHandIndex(HandLists(cfg)[p], HandLists(cfg)[1 - p])]
        /\ hand_strength = IsoStrengthTable(cfg.flop, HandLists(cfg), evaluator)
        /\ info = IsoInfo
        /\ node = Pushed(cfg, HandLists(cfg),
                         NewNode(PLAYER_CHANCE, IsoTurn, NOT_DEALT, cfg.initial_stack), IsoInfo)
        /\ root = [node |-> Pushed(cfg, HandLists(cfg), DefaultNode, RootInfo),
                   below |-> TreeBelow(cfg, "allocated")]
        /\ ret = "Ok" /\ max_memory_mb = None
        /\ current_memory_usage = None /\ additional_memory_usage = None
        /\ terminal = DefaultNode
        /\ reach \in [0..1 -> UNION {[1..n -> 0..MaxReach] : n \in 1..3}]
        /\ \A p \in 0..1 : Len(reach[p]) = Len(private_hand_cards[p])
        /\ result = [p \in 0..1 |-> [k \in 1..Len(private_hand_cards[p]) |-> 0]]
        /\ evaluated = [p \in 0..1 |-> "no"]
        /\ IdleParse /\ IdlePar

\* The k-th isomorphic chance of the node is replayed for player: the opponent's
\* reach is permuted by its swap list, the canonical child is evaluated, and the
\* values are permuted by the player's swap list. terminal is the child the
\* skipped card would have, were it built.
Replay(player, k) ==
    LET flop_mask == flop_mask_of(config.flop)
        skipped == IsomorphicCards(flop_mask \cup Shl1(node.turn),
                                   IsoSuits(config.flop, node.turn))
        chance == node.iso_chances[k]
        canonical == At(node.children, chance.index)[2]
    IN  /\ evaluated = [p \in 0..1 |-> "no"]
        /\ skipped[k] \in IsoRivers
        /\ terminal' = [canonical EXCEPT !.river = skipped[k]]
        /\ result' = [result EXCEPT ![player] =
               ApplySwaps(evaluate(result[player], canonical, player,
                                   ApplySwaps(reach[1 - player], chance.swap_list[1 - player])),
                          chance.swap_list[player])]
        /\ evaluated' = [evaluated EXCEPT ![player] = "replayed"]
        /\ UNCHANGED <<gameVars, callVars, evaluator, reach, node, info, parseVars, parVars>>

NextIso == \E player \in 0..1, k \in 1..NumCards :
               k <= Len(node.iso_chances) /\ Replay(player, k)

SpecIso == InitIso /\ [][NextIso]_vars

-----------------------------------------------------------------------------
(* A call of flop_from_str: SpecParse *)

\* card tokens, among them those of "Qs Jh 2h" and "Td9d6h" and the cards 0 and 51
GoodTokens == {<<"Q", "s">>, <<"J", "h">>, <<"2", "h">>, <<"T", "d">>, <<"9", "d">>,
               <<"6", "h">>, <<"2", "c">>, <<"A", "s">>}
\* a missing token, a lone rank, ranks and suits that are none, a split token
BadTokens == {<<>>, <<"Q">>, <<"1", "s">>, <<"t", "d">>, <<"Q", "x">>, <<"Q", " ", "s">>}
Separators == {<<>>, <<" ">>, <<" ", "\t">>}
Trailers == {<<>>, <<" ">>, <<"x">>, <<"Q", "s">>}

\* the texts flop_from_str is called with
ParseInputs ==
    {t1 \o w1 \o t2 \o w2 \o t3 \o tail :
        t1 \in GoodTokens \cup BadTokens, t2 \in GoodTokens \cup BadTokens,
        t3 \in GoodTokens \cup BadTokens,
        w1 \in Separators, w2 \in Separators, tail \in Trailers}

\* a default game, and a text whose parse has not returned
InitParse ==
    /\ config = DefaultConfig
    /\ num_combinations_inv = <<0, 1>>
    /\ initial_reach = [p \in 0..1 |-> <<>>]
    /\ private_hand_cards = [p \in 0..1 |-> <<>>]
    /\ same_hand_index = [p \in 0..1 |-> <<>>]
    /\ hand_strength = <<>>
    /\ root = [node |-> DefaultNode, below |-> NoTree]
    /\ ret = "none" /\ max_memory_mb = None
    /\ current_memory_usage = None /\ additional_memory_usage = None
    /\ evaluator = <<>>
    /\ IdleEvaluation /\ IdleBuild
    /\ flop_str \in ParseInputs
    /\ parsed = None
    /\ IdlePar

\* flop_from_str(flop_str) returns
Parse ==
    /\ parsed = None
    /\ parsed' = Some(flop_from_str(flop_str))
    /\ UNCHANGED <<gameVars, callVars, evaluator, evalVars, treeVars, flop_str, parVars>>

NextParse == Parse

SpecParse == InitParse /\ [][NextParse]_vars

-----------------------------------------------------------------------------
(* The parallel tree build, one atomic step at a time: SpecPar *)

\* a mutation of fetch_add: the value is stored, not added
fetch_add_stored(counter, val) == val

\* AtomicU64::fetch_add(val, Ordering::Relaxed): the counter's new value
fetch_add(counter, val) == counter + val

\* OOP may bet a third of the pot or the pot (all-in) on the river, IP a third of
\* the pot
ParSizes ==
    <<[bet |-> <<PotRelative(1, 3), PotRelative(1, 1)>>, raise |-> <<>>],
      [bet |-> <<PotRelative(1, 3)>>, raise |-> <<>>]>>

\* OOP holds 2c2d and 2c2h, which the exchange of diamonds and hearts maps to
\* each other
ParRanges ==
    [p \in 0..1 |-> IF p = 0 THEN (<<0, 1>> :> 1) @@ (<<0, 2>> :> 1) @@ (<<4, 8>> :> 2)
                    ELSE RangesA[1]]

\* no bets on the flop, OOP's pot bet (all-in) on the turn, one bet on the river
ParConfig == BaseConfig(ParRanges, NoBets, OopBets, ParSizes)

\* the path of a node is the sequence of the positions (from 1) of the children
\* taken from the root. BuiltAt is the node as its invocation pushes it and the
\* BuildTreeInfo the invocation is given, when the tree is built in sequence.
RECURSIVE BuiltAt(_)
BuiltAt(path) ==
    IF path = <<>>
    THEN [node |-> Pushed(ParConfig, HandLists(ParConfig), DefaultNode, RootInfo),
          info |-> RootInfo]
    ELSE LET up == BuiltAt(SubSeq(path, 1, Len(path) - 1))
             inf == ChildInfo(ParConfig, up.node, up.info,
                              up.node.children[path[Len(path)]][1])
         IN  [node |-> Pushed(ParConfig, HandLists(ParConfig),
                              up.node.children[path[Len(path)]][2], inf),
              info |-> inf]
NodeAt(path) == BuiltAt(path).node
InfoAt(path) == BuiltAt(path).info

\* the path that takes the actions of line from the root
RECURSIVE PathOf(_)
PathOf(line) ==
    IF line = <<>> THEN <<>>
    ELSE LET parent == PathOf(SubSeq(line, 1, Len(line) - 1))
             children == NodeAt(parent).children
         IN  Append(parent, CHOOSE k \in 1..Len(children) :
                                children[k][1] = line[Len(line)])

\* IP's node on the turn 3c, facing OOP's all-in: its Call leads to the river deal
\* of an all-in, a chance node with isomorphic chances and terminal children
AllInLine == <<<<"Check">>, <<"Check">>, <<"Chance", 4>>, <<"AllIn">>>>
\* OOP's node on the river 4d after four checks: the root of a betting tree
RiverLine ==
    <<<<"Check">>, <<"Check">>, <<"Chance", 4>>, <<"Check">>, <<"Check">>, <<"Chance", 9>>>>

\* an invocation build_tree_recursive(node, info) that a par_iter has forked:
\* its arguments, whether it has pushed the node's children, and the fetch_add
\* calls it has still to make
Forked(path, nd, inf) ==
    [path |-> path, node |-> nd, info |-> inf, pushed |-> FALSE, todo |-> <<>>]

\* the fetch_add calls of push_chances and push_actions on the pushed node nd, in
\* program order: one per swap list, then one for children and iso_chances; or
\* one for children and one for the arrays
FetchAdds(hand_cards, nd) ==
    IF is_chance(nd)
    THEN [i \in 1..(2 * Len(nd.iso_chances)) |->
             <<"current",
               SizeOfSwap * Len(nd.iso_chances[(i + 1) \div 2].swap_list[(i + 1) % 2])>>]
         \o <<<<"current", Len(nd.children) * SizeOfChild
                              + Len(nd.iso_chances) * SizeOfIsoChance>>>>
    ELSE <<<<"current", Len(nd.children) * SizeOfChild>>,
           <<"additional", 2 * num_actions(nd) * Len(hand_cards[nd.player]) * SizeOfF32>>>>

\* the lines whose subtrees may be in flight
ParLines == <<AllInLine, RiverLine>>

\* for the node at path: the invocation forked on it, and what that invocation
\* and those below it add to the two counters
Subtree(at, path) ==
    [forked |-> Forked(path, [at.node EXCEPT !.children = <<>>, !.iso_chances = <<>>],
                       at.info),
     charges |-> BuiltCharges(ParConfig, HandLists(ParConfig), at.node, at.info)]

\* The build is under way: every invocation outside the subtrees of the lines
\* in flight has made its fetch_add calls, and the invocations at the roots of
\* those subtrees have been forked.
InitParWith(whole, ahead) ==
    \E lines \in {<<1>>, <<2>>, <<1, 2>>}, cap \in Caps :
        /\ evaluator = [h \in ScoredHands(ParConfig) |-> 1]
        /\ config = ParConfig
        /\ num_combinations_inv = <<1, NumCombinations(ParConfig)>>
        /\ private_hand_cards = HandLists(ParConfig)
        /\ initial_reach = [p \in 0..1 |-> ReachList(ParConfig.range[p])]
        /\ same_hand_index = [p \in 0..1 |->
               SameHandIndex(HandLists(ParConfig)[p], HandLists(ParConfig)[1 - p])]
        /\ hand_strength = HandStrengthTable(ParConfig.flop, HandLists(ParConfig), evaluator)
        /\ root = [node |-> NodeAt(<<>>), below |-> TreeBelow(ParConfig, "partial")]
        /\ ret = "none" /\ max_memory_mb = cap
        /\ builders = {ahead[lines[k]].forked : k \in 1..Len(lines)}
        /\ nodes = <<>>
        /\ current_memory_usage = SizeOfNode + whole.current
               - SeqSum([k \in 1..Len(lines) |-> ahead[lines[k]].charges.current])
        /\ additional_memory_usage = whole.additional
               - SeqSum([k \in 1..Len(lines) |-> ahead[lines[k]].charges.additional])
        /\ IdleEvaluation /\ IdleBuild /\ IdleParse

\* whole is what the build of the whole tree adds to the two counters, ahead the
\* subtrees of ParLines
InitPar ==
    InitParWith(SubtreeCharges(ParConfig, HandLists(ParConfig), DefaultNode, RootInfo),
                <<>> \o [k \in 1..Len(ParLines) |->
                            Subtree(BuiltAt(PathOf(ParLines[k])), PathOf(ParLines[k]))])

\* the invocation b runs push_chances or push_actions up to its first fetch_add:
\* only its own node is written
Push(b) ==
    /\ ~b.pushed
    /\ LET nd == Pushed(config, private_hand_cards, b.node, b.info)
       IN  /\ nodes' = nodes @@ (b.path :> nd)
           /\ builders' = (builders \ {b})
                  \cup {[b EXCEPT !.node = nd, !.pushed = TRUE,
                                  !.todo = FetchAdds(private_hand_cards, nd)]}
    /\ UNCHANGED <<gameVars, callVars, evaluator, evalVars, treeVars, parseVars>>

\* the invocation b makes its next fetch_add
FetchAdd(b) ==
    /\ b.pushed /\ b.todo # <<>>
    /\ IF Head(b.todo)[1] = "current"
       THEN /\ current_memory_usage' = fetch_add(current_memory_usage, Head(b.todo)[2])
            /\ UNCHANGED additional_memory_usage
       ELSE /\ additional_memory_usage' =
                   fetch_add(additional_memory_usage, Head(b.todo)[2])
            /\ UNCHANGED current_memory_usage
    /\ builders' = (builders \ {b}) \cup {[b EXCEPT !.todo = Tail(b.todo)]}
    /\ UNCHANGED <<gameVars, ret, max_memory_mb, evaluator, evalVars, treeVars, parseVars,
                   nodes>>

\* the invocation b reaches its par_iter: an invocation is forked on every child.
\* The invocation on a terminal child returns at once, and b itself does nothing
\* more once its children have returned.
Recurse(b) ==
    /\ b.pushed /\ b.todo = <<>>
    /\ builders' = (builders \ {b})
           \cup {Forked(Append(b.path, k), b.node.children[k][2],
                        ChildInfo(config, b.node, b.info, b.node.children[k][1])) :
                    k \in {j \in 1..Len(b.node.children) :
                              ~is_terminal(b.node.children[j][2])}}
    /\ UNCHANGED <<gameVars, callVars, evaluator, evalVars, treeVars, parseVars, nodes>>

\* build_tree_recursive has returned to init_root, which loads the two counters
\* and goes on to the memory usage check
Join ==
    /\ builders = {} /\ ret = "none" /\ nodes # <<>>
    /\ LET checked ==
               check_memory_usage([current |-> current_memory_usage - SizeOfNode,
                                   additional |-> additional_memory_usage,
                                   panicked |-> FALSE],
                                  root.node, config, private_hand_cards, max_memory_mb)
       IN  ret' = checked.ret /\ root' = checked.root
    /\ UNCHANGED <<config, num_combinations_inv, initial_reach, private_hand_cards,
                   same_hand_index, hand_strength, max_memory_mb, current_memory_usage,
                   additional_memory_usage, evaluator, evalVars, treeVars, parseVars,
                   parVars>>

Step == \E b \in builders : Push(b) \/ FetchAdd(b) \/ Recurse(b)

NextPar == Step \/ Join

SpecPar == InitPar /\ [][NextPar]_vars

-----------------------------------------------------------------------------
(* The evaluator's claims *)

\* the cards on the board of nd: the flop and those of turn and river that are dealt
BoardCards(nd) ==
    {config.flop[1], config.flop[2], config.flop[3]}
    \cup (IF nd.turn = NOT_DEALT THEN {} ELSE {nd.turn})
    \cup (IF nd.river = NOT_DEALT THEN {} ELSE {nd.river})

OffBoard(h, nd) == {h[1], h[2]} \cap BoardCards(nd) = {}
Disjoint(h, g) == {h[1], h[2]} \cap {g[1], g[2]} = {}

\* the opponent hands that count against hand h of a player: off the board and
\* sharing no card with h
Opposing(player, h, nd) ==
    {j \in 1..Len(private_hand_cards[1 - player]) :
        /\ OffBoard(private_hand_cards[1 - player][j], nd)
        /\ Disjoint(private_hand_cards[1 - player][j], h)}

\* the sum of f[x] over x in S
RECURSIVE SetSum(_, _)
SetSum(S, f) ==
    IF S = {} THEN 0
    ELSE LET x == CHOOSE x \in S : TRUE IN f[x] + SetSum(S \ {x}, f)

\* twice the showdown payoff of hand h against hand g
ShowdownPayoff2(h, g, nd) ==
    IF evaluator[h] > evaluator[g] THEN 2 * (config.initial_pot + nd.amount)
    ELSE IF evaluator[h] = evaluator[g] THEN config.initial_pot
    ELSE -2 * nd.amount

\* the quadratic range-vs-range sums, in the units of result
NaiveShowdown(player, k, nd, cfreach) ==
    LET h == private_hand_cards[player][k] IN
    SetSum(Opposing(player, h, nd), [j \in Opposing(player, h, nd) |->
        cfreach[j] * ShowdownPayoff2(h, private_hand_cards[1 - player][j], nd)])

NaiveFold(player, k, nd, cfreach) ==
    LET h == private_hand_cards[player][k]
        payoff == IF nd.player % 256 = player THEN -nd.amount
                  ELSE config.initial_pot + nd.amount
    IN  2 * payoff * SetSum(Opposing(player, h, nd), cfreach)

Hands(player) == 1..Len(private_hand_cards[player])
LiveHands(player, nd) == {k \in Hands(player) : OffBoard(private_hand_cards[player][k], nd)}

\* C2: at a showdown terminal, for every hand of the evaluating player that is off
\* the board, evaluate leaves in result the naive sum over the opposing hands of
\* cfreach times the win, tie or lose payoff.
C2_ShowdownMatchesNaive ==
    \A p \in 0..1 :
        (~is_fold(terminal) /\ evaluated[p] = "returned") =>
            \A k \in LiveHands(p, terminal) :
                result[p][k] = NaiveShowdown(p, k, terminal, reach[1 - p])

\* a showdown was evaluated for a hand that the opponent holds too, with reach, next
\* to an opposing hand it beats, and the value is not zero
C2_Witness ==
    \E p \in 0..1 : \E k \in LiveHands(p, terminal) :
        /\ ~is_fold(terminal) /\ evaluated[p] = "returned"
        /\ same_hand_index[p][k] # None
        /\ At(reach[1 - p], same_hand_index[p][k][1]) > 0
        /\ \E j \in Opposing(p, private_hand_cards[p][k], terminal) :
               /\ reach[1 - p][j] > 0
               /\ evaluator[private_hand_cards[p][k]]
                      > evaluator[private_hand_cards[1 - p][j]]
        /\ result[p][k] # 0

\* C3: at a fold terminal, evaluate does not fail, and for every hand of the
\* evaluating player that is off the dealt board it leaves in result the payoff times
\* the reach of the opposing hands, also when turn or river is not dealt.
C3_FoldMatchesNaive ==
    \A p \in 0..1 :
        (is_fold(terminal) /\ evaluated[p] # "no") =>
            /\ evaluated[p] = "returned"
            /\ \A k \in LiveHands(p, terminal) :
                   result[p][k] = NaiveFold(p, k, terminal, reach[1 - p])

\* C4: after evaluate returns, the entry of every hand that shares a card with the
\* board is 0.
C4_ConflictingHandsZero ==
    \A p \in 0..1 :
        evaluated[p] = "returned" =>
            \A k \in Hands(p) \ LiveHands(p, terminal) : result[p][k] = 0

\* the reach-weighted sum of a player's values over the hands in S
WeightedSum(player, S) == SetSum(S, [k \in S |-> reach[player][k] * result[player][k]])

\* the joint reach of the hand pairs that share no card with each other or the board
CompatibleMass(nd) ==
    SetSum(LiveHands(0, nd), [k \in LiveHands(0, nd) |->
        reach[0][k] * SetSum(Opposing(0, private_hand_cards[0][k], nd), reach[1])])

\* C5: at every terminal, once evaluate has been run for both players against each
\* other's reach, the two reach-weighted sums over all hands add up to initial_pot
\* times the compatible joint reach (in the units of result: twice that).
C5_ConstantSum ==
    (\A p \in 0..1 : evaluated[p] # "no") =>
        /\ \A p \in 0..1 : evaluated[p] = "returned"
        /\ WeightedSum(0, Hands(0)) + WeightedSum(1, Hands(1))
               = 2 * config.initial_pot * CompatibleMass(terminal)

\* C6 as stated: at a fold terminal the two reach-weighted sums add up to zero (taken
\* where the entries of hands on the board are 0, as the result convention has it).
C6_FoldZeroSum ==
    (/\ is_fold(terminal)
     /\ \A p \in 0..1 : evaluated[p] = "returned"
     /\ \A p \in 0..1 : \A k \in Hands(p) \ LiveHands(p, terminal) : result[p][k] = 0)
        => WeightedSum(0, Hands(0)) + WeightedSum(1, Hands(1)) = 0

\* C6 amended: at a fold terminal where evaluate has returned for both players, the
\* two reach-weighted sums over the hands off the board add up to initial_pot times
\* the compatible joint reach, not to zero.
C6_FoldConstantSum ==
    (is_fold(terminal) /\ \A p \in 0..1 : evaluated[p] = "returned") =>
        WeightedSum(0, LiveHands(0, terminal)) + WeightedSum(1, LiveHands(1, terminal))
            = 2 * config.initial_pot * CompatibleMass(terminal)

\* a fold on the river was evaluated for both players, some compatible pair of
\* hands has reach, and the two values do not cancel
C6_Witness ==
    /\ is_fold(terminal) /\ terminal.river # NOT_DEALT
    /\ \A p \in 0..1 : evaluated[p] = "returned"
    /\ CompatibleMass(terminal) > 0
    /\ WeightedSum(0, LiveHands(0, terminal)) + WeightedSum(1, LiveHands(1, terminal)) > 0

-----------------------------------------------------------------------------
(* The claims of construction *)

Errors == {ErrFlopNotInit, ErrFlopRange, ErrFlopUnique, ErrPot, ErrStack, ErrOopRange,
           ErrIpRange, ErrNoAssignment, ErrMemory}

\* some OOP hand and some IP hand have a nonzero joint prior, four distinct cards
\* and none of them on the flop
HasAssignment(cfg) ==
    \E h \in DOMAIN cfg.range[0], g \in DOMAIN cfg.range[1] :
        /\ cfg.range[0][h] * cfg.range[1][g] # 0
        /\ Cardinality({h[1], h[2], g[1], g[2], cfg.flop[1], cfg.flop[2], cfg.flop[3]}) = 7

\* one of the conditions the claim lists holds of cfg
Rejectable(cfg) ==
    \/ \E k \in 1..3 : cfg.flop[k] = NOT_DEALT
    \/ \E k \in 1..3 : cfg.flop[k] >= 52
    \/ \E k, m \in 1..3 : k # m /\ cfg.flop[k] = cfg.flop[m]
    \/ cfg.initial_pot <= 0
    \/ cfg.initial_stack <= 0
    \/ \E p \in 0..1 : \A h \in DOMAIN cfg.range[p] : cfg.range[p][h] = 0
    \/ ~HasAssignment(cfg)

\* no open-bet list of cfg holds a candidate relative to the last bet
OpenBetsPotRelative(cfg) ==
    \A sizes \in {cfg.flop_bet_sizes, cfg.turn_bet_sizes, cfg.river_bet_sizes} :
        \A p \in 1..2 : \A k \in 1..Len(sizes[p].bet) : sizes[p].bet[k].kind = "PotRelative"

C7_MemoryCap ==
    [][ret' \in {"Ok", ErrMemory} =>
          /\ ret' = ErrMemory <=>
                 /\ max_memory_mb' # None
                 /\ current_memory_usage' + additional_memory_usage'
                        > max_memory_mb'[1] * 1024 * 1024
          /\ ret' = ErrMemory =>
                 /\ root'.below.state = "built"
                 /\ root'.node.cum_regret = root.node.cum_regret
                 /\ root'.node.strategy = root.node.strategy]_vars

\* a build of more than one MiB failed under a cap of 1 MB
C7_Witness ==
    /\ ret = ErrMemory /\ max_memory_mb = Some(1)
    /\ current_memory_usage + additional_memory_usage > 1024 * 1024
    /\ root.below.state = "built"

\* the default game: nothing of any configuration
DefaultGame ==
    /\ config = DefaultConfig
    /\ num_combinations_inv = <<0, 1>>
    /\ initial_reach = [p \in 0..1 |-> <<>>]
    /\ private_hand_cards = [p \in 0..1 |-> <<>>]
    /\ same_hand_index = [p \in 0..1 |-> <<>>]
    /\ hand_strength = <<>>
    /\ root = [node |-> DefaultNode, below |-> NoTree]

\* C8: a call of update_config on a built game that returns an error leaves the
\* game as it was before the call, or as the default game: config,
\* num_combinations_inv, the hand lists, the hand-strength tables and the tree
\* under root hold nothing of the rejected configuration.
C8_AllOrNothing ==
    [][(ret = "Ok" /\ ret' \in Errors) => (UNCHANGED gameVars \/ DefaultGame')]_vars

\* C9: the child actions of the node at hand are strictly increasing in the order
\* None < Fold < Check < Call < Bet by size < Raise by size < AllIn < Chance by
\* card; a player node has Fold exactly when the incoming action is Bet, Raise or
\* AllIn, then has Call too, and has Check otherwise.
ActionRank(a) ==
    CHOOSE k \in 1..8 :
        <<"None", "Fold", "Check", "Call", "Bet", "Raise", "AllIn", "Chance">>[k] = a[1]
ActionBefore(a, b) ==
    \/ ActionRank(a) < ActionRank(b)
    \/ ActionRank(a) = ActionRank(b) /\ a[1] \in {"Bet", "Raise", "Chance"} /\ a[2] < b[2]
ActionsOf(nd) == {nd.children[k][1] : k \in 1..Len(nd.children)}

C9_ActionsSorted ==
    /\ \A k \in 1..(Len(node.children) - 1) :
           ActionBefore(node.children[k][1], node.children[k + 1][1])
    /\ (~is_chance(node) /\ ~is_terminal(node)) =>
           /\ <<"Fold">> \in ActionsOf(node) <=> info.last_action[1] \in {"Bet", "Raise", "AllIn"}
           /\ <<"Fold">> \in ActionsOf(node) => <<"Call">> \in ActionsOf(node)
           /\ <<"Fold">> \notin ActionsOf(node) => <<"Check">> \in ActionsOf(node)

\* a player facing a raise may fold, call, raise to two sizes or go all-in
C9_Witness ==
    /\ ~is_chance(node) /\ ~is_terminal(node)
    /\ info.last_action[1] = "Raise"
    /\ \E n, m \in 1..40 : n < m /\ {<<"Raise", n>>, <<"Raise", m>>, <<"AllIn">>} \subseteq ActionsOf(node)

\* C10: at a chance node, the k-th iso_chances record belongs to the k-th card of
\* the pass that is off the board and has no child of its own; its index is a
\* position of children, and the child there is the chance of the card of the same
\* rank in a lower suit that carries the same board ranks, is off the board and
\* comes earlier in the pass.
SkippedCards(nd) ==
    SelectSeq(AllCards, LAMBDA card : /\ card \notin BoardCards(nd)
                                      /\ <<"Chance", card>> \notin ActionsOf(nd))
FlopRanks(suit) == {RankOf(config.flop[k]) : k \in {m \in 1..3 : SuitOf(config.flop[m]) = suit}}
BoardRanks(nd, suit) == {RankOf(c) : c \in {b \in BoardCards(nd) : SuitOf(b) = suit}}

C10_IsoChanceTargets ==
    is_chance(node) =>
        /\ Len(node.iso_chances) = Len(SkippedCards(node))
        /\ \A k \in 1..Len(node.iso_chances) :
               LET card == SkippedCards(node)[k]
                   index == node.iso_chances[k].index
               IN  /\ index < Len(node.children)
                   /\ \E s1 \in 0..(SuitOf(card) - 1) :
                          /\ At(node.children, index)[1] = <<"Chance", RankOf(card) * 4 + s1>>
                          /\ FlopRanks(s1) = FlopRanks(SuitOf(card))
                          /\ BoardRanks(node, s1) = BoardRanks(node, SuitOf(card))
                          /\ RankOf(card) * 4 + s1 \notin BoardCards(node)
                          /\ RankOf(card) * 4 + s1 < card

\* a river deal that skips cards of two suits, with a record that points past
\* the first child
C10_Witness ==
    /\ is_chance(node) /\ node.turn # NOT_DEALT
    /\ Cardinality({SuitOf(SkippedCards(node)[k]) : k \in 1..Len(SkippedCards(node))}) >= 2
    /\ \E k \in 1..Len(node.iso_chances) : node.iso_chances[k].index > 0

-----------------------------------------------------------------------------
(* The hand-strength table's claims *)

\* the boards of the model whose closure has completed
CompletedBoards == {b \in StrengthBoards : CollectPosition(b[1], b[2]) \in DOMAIN hand_strength}
OffFlop(b) == {b[1], b[2]} \cap {config.flop[1], config.flop[2], config.flop[3]} = {}

\* C11: for every (turn, river) board that does not conflict with the flop and
\* for each player, tie_threshold[i] >= win_threshold[i] >= exclude_threshold for
\* every hand i of that player's hand list.
C11_ThresholdsOrdered ==
    \A b \in CompletedBoards : OffFlop(b) =>
        \A player \in 0..1 :
            LET entry == hand_strength[CollectPosition(b[1], b[2])][player] IN
            \A i \in 1..Len(private_hand_cards[player]) :
                /\ entry.tie_threshold[i] >= entry.win_threshold[i]
                /\ entry.win_threshold[i] >= entry.exclude_threshold

\* all pairs 0 <= t < r < 52
AllBoards == {<<t, r>> \in (0..(NumCards - 1)) \X (0..(NumCards - 1)) : t < r}
BoardIndices == {board_index(b[1], b[2]) : b \in AllBoards}

\* C18: board_index is symmetric, maps the pairs 0 <= t < r < 52 one-to-one onto
\* 0 .. 52*51/2 - 1, and the entry at board_index(t, r) of the collected table is
\* the one computed for flop + {t, r}, in whatever order the boards complete.
C18_BoardIndexAddressesTable ==
    /\ hand_strength = <<>> =>
           /\ \A b \in AllBoards : board_index(b[1], b[2]) = board_index(b[2], b[1])
           /\ BoardIndices = 0..((NumCards * (NumCards - 1)) \div 2 - 1)
           /\ Cardinality(AllBoards) = (NumCards * (NumCards - 1)) \div 2
    /\ \A b \in CompletedBoards :
           /\ board_index(b[1], b[2]) \in DOMAIN hand_strength
           /\ board_index(b[2], b[1]) \in DOMAIN hand_strength
           /\ hand_strength[board_index(b[2], b[1])] =
                  BoardStrength(config.flop, b[1], b[2], private_hand_cards, evaluator)

\* every closure of the model has completed, the last board of the pass among
\* them, and two boards off the flop hold different entries
C18_Witness ==
    /\ CompletedBoards = StrengthBoards
    /\ \E b, c \in CompletedBoards :
           /\ OffFlop(b) /\ OffFlop(c)
           /\ hand_strength[board_index(b[1], b[2])] # hand_strength[board_index(c[1], c[2])]

-----------------------------------------------------------------------------
(* The isomorphic chances' claims *)

\* C12: replaying an isomorphic chance on its canonical child, with both
\* players' vectors permuted by the record's swap lists, gives every hand that is
\* off the board of the skipped card the value the skipped card's own branch
\* would give it.
C12_IsoReplay ==
    \A player \in 0..1 :
        evaluated[player] = "replayed" =>
            \A i \in 1..Len(private_hand_cards[player]) :
                OffBoard(private_hand_cards[player][i], terminal) =>
                    result[player][i] =
                        evaluate([k \in 1..Len(result[player]) |-> 0], terminal, player,
                                 reach[1 - player])[i]

\* the hand h with the card c replaced by d, the smaller card first
ImageHand(h, c, d) ==
    LET other == IF h[1] = c THEN h[2] ELSE h[1]
    IN  <<Min(other, d), Max(other, d)>>

\* the transpositions (i, j): hand i holds c and its image is hand j of the list
ImagePairs(hands, c, d) ==
    {<<i, j>> \in (0..(Len(hands) - 1)) \X (0..(Len(hands) - 1)) :
        /\ c \in {At(hands, i)[1], At(hands, i)[2]}
        /\ At(hands, j) = ImageHand(At(hands, i), c, d)}

\* C17: the record built for a skipped card c with canonical card c' holds, for
\* each player, the pair (i, j) for every hand i that holds c and whose image
\* (c replaced by c', smaller card first) is hand j of the list, and no other
\* pair.
C17_SwapListComplete ==
    is_chance(node) =>
        \A k \in 1..Len(node.iso_chances) :
            LET c == SkippedCards(node)[k]
                canonical == At(node.children, node.iso_chances[k].index)[1][2]
            IN  \A p \in 0..1 :
                    LET swap_list == node.iso_chances[k].swap_list[p] IN
                    /\ SeqToSet(swap_list) = ImagePairs(private_hand_cards[p], c, canonical)
                    /\ Len(swap_list) = Cardinality(SeqToSet(swap_list))

-----------------------------------------------------------------------------
(* The flop parser's claim *)

IsToken(s, i) ==
    /\ i + 1 <= Len(s)
    /\ s[i] \in SeqToSet(RankChars)
    /\ s[i + 1] \in SeqToSet(SuitChars)

\* rank * 4 + suit of the token at position i
CardCode(s, i) ==
    (CHOOSE r \in 0..12 : RankChars[r + 1] = s[i]) * 4
    + (CHOOSE u \in 0..3 : SuitChars[u + 1] = s[i + 1])

\* s is three card tokens, the second at i2 and the third at i3, with nothing
\* but whitespace between them and nothing after the third
IsFlopText(s, i2, i3) ==
    /\ 3 <= i2 /\ i2 + 2 <= i3 /\ i3 + 1 = Len(s)
    /\ IsToken(s, 1) /\ IsToken(s, i2) /\ IsToken(s, i3)
    /\ \A k \in (3..(i2 - 1)) \cup ((i2 + 2)..(i3 - 1)) : s[k] \in Whitespace

TokenCodes(s, i2, i3) == {CardCode(s, 1), CardCode(s, i2), CardCode(s, i3)}

\* C13: on three two-character card tokens with optional whitespace between them,
\* pairwise different, flop_from_str returns the three codes rank * 4 + suit in
\* ascending order; on every other text (fewer than three tokens, a character
\* that is no rank or suit, two equal cards, content after the third token) it
\* returns an error.
C13_FlopFromStr ==
    parsed # None =>
        IF \E i2, i3 \in 1..Len(flop_str) :
               IsFlopText(flop_str, i2, i3) /\ Cardinality(TokenCodes(flop_str, i2, i3)) = 3
        THEN \E i2, i3 \in 1..Len(flop_str) :
               /\ IsFlopText(flop_str, i2, i3)
               /\ parsed[1][1] = "Ok"
               /\ SeqToSet(parsed[1][2]) = TokenCodes(flop_str, i2, i3)
               /\ parsed[1][2][1] < parsed[1][2][2] /\ parsed[1][2][2] < parsed[1][2][3]
        ELSE parsed[1][1] = "Err"

\* "Qs Jh 2h" has returned [2, 38, 43]
C13_Witness ==
    /\ flop_str = <<"Q", "s", " ", "J", "h", " ", "2", "h">>
    /\ parsed = Some(Ok(<<2, 38, 43>>))

-----------------------------------------------------------------------------
(* The range materialization's claim *)

\* the pairs of player p with a nonzero prior that hold no flop card
PlayableHands(p) ==
    {h \in DOMAIN config.range[p] :
        /\ h[1] < h[2]
        /\ get_data(config.range[p], h[1], h[2]) # 0
        /\ {h[1], h[2]} \cap {config.flop[1], config.flop[2], config.flop[3]} = {}}

\* C14: after range materialization private_hand_cards[p] is the strictly
\* increasing sequence of exactly the pairs with a nonzero prior that do not
\* collide with the flop, initial_reach[p] holds their priors at the same
\* indices, and same_hand_index[p][i] is the index of the identical hand in the
\* opponent's list, or absent.
C14_HandLists ==
    ret = "Ok" =>
        \A p \in 0..1 :
            LET hands == private_hand_cards[p]
                others == private_hand_cards[1 - p]
            IN  /\ SeqToSet(hands) = PlayableHands(p)
                /\ \A i \in 1..(Len(hands) - 1) : HandLess(hands[i], hands[i + 1])
                /\ Len(initial_reach[p]) = Len(hands)
                /\ \A i \in 1..Len(hands) :
                       initial_reach[p][i] = get_data(config.range[p], hands[i][1], hands[i][2])
                /\ Len(same_hand_index[p]) = Len(hands)
                /\ \A i \in 1..Len(hands) :
                       IF \E j \in 1..Len(others) : others[j] = hands[i]
                       THEN /\ same_hand_index[p][i] # None
                            /\ At(others, same_hand_index[p][i][1]) = hands[i]
                       ELSE same_hand_index[p][i] = None

-----------------------------------------------------------------------------
(* The betting tree's claims *)

is_player(nd) == ~is_chance(nd) /\ ~is_terminal(nd)

\* the sizes of the configured candidates of the node at hand, as computed from
\* the ratios, before they are adjusted
CandidateSizes ==
    {RawActions(config, node, info)[k][1][2] :
        k \in {j \in 1..Len(RawActions(config, node, info)) :
                  RawActions(config, node, info)[j][1][1] \in {"Bet", "Raise"}}}

\* C15: at a player node, with max_bet = initial_stack - amount + last_bet[player]
\* and min_bet = min(max_bet, last_bet[opponent] + bet_diff): min_bet <= max_bet;
\* every child Bet(n) or Raise(n) has min_bet <= n < max_bet; and the candidates
\* whose size, clamped into [min_bet, max_bet], is max_bet are offered as exactly
\* one AllIn child, which is offered for no other reason.
C15_BetsClamped ==
    (is_player(node) /\ node.children # <<>>) =>
        LET player_bet == At(info.last_bet, node.player)
            opponent_bet == At(info.last_bet, 1 - node.player)
            max_bet == config.initial_stack - node.amount + player_bet
            min_bet == Min(max_bet, opponent_bet + (opponent_bet - player_bet))
        IN  /\ min_bet <= max_bet
            /\ \A k \in 1..Len(node.children) :
                   node.children[k][1][1] \in {"Bet", "Raise"} =>
                       /\ min_bet <= node.children[k][1][2]
                       /\ node.children[k][1][2] < max_bet
            /\ (\E size \in CandidateSizes : Max(min_bet, Min(size, max_bet)) = max_bet)
                   <=> (\E k \in 1..Len(node.children) : node.children[k][1] = <<"AllIn">>)
            /\ Cardinality({k \in 1..Len(node.children) :
                                node.children[k][1] = <<"AllIn">>}) <= 1

\* the root of a tree whose open-bet sizes are 0 chips and twice the stack: the
\* first is offered as Bet(0), the second as AllIn
C15_Witness ==
    /\ is_player(node) /\ info.last_action = <<"None">>
    /\ CandidateSizes = {0, 40}
    /\ ActionsOf(node) = {<<"Check">>, <<"Bet", 0>>, <<"AllIn">>}

\* C16: at a player node, the two last bets are equal exactly when the incoming
\* action is None, Check or Chance; after Bet, Raise or AllIn the opponent's last
\* bet is strictly greater than that of the player to act (bet_diff > 0).
C16_LastBetsEqualIffCheckEquivalent ==
    is_player(node) =>
        /\ At(info.last_bet, PLAYER_OOP) = At(info.last_bet, PLAYER_IP)
               <=> info.last_action[1] \in {"None", "Check", "Chance"}
        /\ info.last_action[1] \in {"Bet", "Raise", "AllIn"} =>
               At(info.last_bet, 1 - node.player) > At(info.last_bet, node.player)

\* the amount at the start of the street, as the claims define it for the player
\* node at hand: what the node holds less the last bet of the player to act
StreetStart == node.amount - At(info.last_bet, node.player)

\* the amounts of the node at hand and of its children are within the stack, the
\* stack is reached only with allin_flag set, and the root starts at 0
AmountWithinStack ==
    /\ 0 <= node.amount /\ node.amount <= config.initial_stack
    /\ \A k \in 1..Len(node.children) :
           /\ 0 <= node.children[k][2].amount
           /\ node.children[k][2].amount <= config.initial_stack
    /\ node.amount = config.initial_stack => info.allin_flag
    /\ info.last_action = <<"None">> => node.amount = 0 /\ info.last_bet = <<0, 0>>

\* one step down the tree: a street starts with no bets at the amount of its
\* chance node; within a street the street-start amount stays; the child of a
\* Call holds the street-start amount plus the bet called; an AllIn records the
\* stack less the street-start amount; the stack is reached by calling an AllIn
AmountStep ==
    /\ (is_chance(node) /\ is_player(node')) =>
           /\ node'.amount = node.amount
           /\ info'.last_bet = <<0, 0>>
    /\ (is_player(node) /\ is_player(node')) =>
           node'.amount - At(info'.last_bet, node'.player) = StreetStart
    /\ (is_player(node) /\ info'.last_action = <<"Call">>) =>
           node'.amount = StreetStart + At(info.last_bet, 1 - node.player)
    /\ (is_player(node) /\ info'.last_action = <<"AllIn">>) =>
           At(info'.last_bet, node.player) = config.initial_stack - StreetStart
    /\ (node'.amount = config.initial_stack /\ node.amount < config.initial_stack) =>
           /\ info.last_action = <<"AllIn">>
           /\ info'.last_action = <<"Call">>

\* C19: every node's amount is in 0..initial_stack; a player node's amount is
\* the amount at the start of its street plus last_bet[player], so the child of
\* a Call holds the street-start amount plus the bet called; the amount reaches
\* initial_stack only by the Call of an AllIn, whose recorded last_bet is
\* initial_stack minus the street-start amount.
C19_Amounts == []AmountWithinStack /\ [][AmountStep]_vars

\* the call of an all-in raise on a later street: the child holds the stack
C19_Witness ==
    /\ info.last_action = <<"Call">> /\ info.allin_flag
    /\ info.num_bet >= 2 /\ node.turn # NOT_DEALT
    /\ node.amount = config.initial_stack

\* at the node at hand: a player who acts after an AllIn is offered Fold and Call
\* only, and no player acts once allin_flag is set except to answer the AllIn;
\* the chance nodes after an all-in deal into chance nodes (turn) and showdown
\* terminals (river); a showdown terminal has both cards dealt
AllInState ==
    /\ info.last_action = <<"AllIn">> =>
           /\ is_player(node) /\ info.allin_flag
           /\ ActionsOf(node) = {<<"Fold">>, <<"Call">>}
    /\ (info.allin_flag /\ info.last_action # <<"AllIn">>) => ~is_player(node)
    /\ (info.allin_flag /\ is_chance(node)) =>
           /\ node.children # <<>>
           /\ \A k \in 1..Len(node.children) :
                  IF node.turn = NOT_DEALT
                  THEN /\ is_chance(node.children[k][2])
                       /\ node.children[k][2].turn # NOT_DEALT
                       /\ node.children[k][2].river = NOT_DEALT
                  ELSE /\ node.children[k][2].player = PLAYER_TERMINAL_FLAG
                       /\ node.children[k][2].river # NOT_DEALT
    /\ node.player = PLAYER_TERMINAL_FLAG =>
           node.turn # NOT_DEALT /\ node.river # NOT_DEALT

\* one step down the tree: the player who answers an AllIn is the opponent of the
\* one who made it, and allin_flag stays set on the rest of the path
AllInStep ==
    /\ info'.last_action = <<"AllIn">> => node'.player = 1 - node.player
    /\ info.allin_flag => info'.allin_flag

\* C20: after an AllIn the only player decision that follows is the opponent's,
\* between Fold and Call; after that Call no player node appears again: the
\* undealt streets are chance nodes whose children are chance nodes (turn deal)
\* and showdown terminals (river deal); every showdown terminal has both the
\* turn and the river dealt.
C20_AllInEndsBetting == []AllInState /\ [][AllInStep]_vars

\* the turn has been dealt after an all-in was called on the flop, and the
\* river deal leads to showdown terminals only
C20_Witness ==
    /\ info.allin_flag /\ is_chance(node)
    /\ info.last_action[1] = "Chance" /\ node.turn # NOT_DEALT
    /\ \A k \in 1..Len(node.children) : node.children[k][2].player = PLAYER_TERMINAL_FLAG

-----------------------------------------------------------------------------
(* The parallel build's claim *)

\* the decision of init_root's memory usage check on the totals of charges
CapDecision(charges, cap) ==
    IF cap # None /\ SizeOfNode + charges.current + charges.additional > cap[1] * 1024 * 1024
    THEN ErrMemory ELSE "Ok"

\* the two counters and the decision are those of the sum of the charges of all
\* nodes of the tree, counted from the root's own size
CountersAreTheSum(charges) ==
    /\ current_memory_usage = SizeOfNode + charges.current
    /\ additional_memory_usage = charges.additional
    /\ ret = CapDecision(charges, max_memory_mb)

\* C21: whatever the order of the steps of the parallel invocations, once the
\* fork-join is over and init_root has read the counters: current_memory_usage
\* is the root's own size plus the sum over all nodes of the bytes of children,
\* iso_chances and swap lists, additional_memory_usage is the sum over the
\* player nodes of 2 * num_actions * num_private_hands(player) * 4, the result
\* is the memory-cap decision on these sums, and every node the parallel
\* invocations have pushed (children with their order, actions and amounts,
\* iso_chances with their order and indices) is the node of the build in
\* sequence, none missing.
C21_ParallelBuildDeterministic ==
    ret # "none" =>
        /\ builders = {}
        /\ CountersAreTheSum(SubtreeCharges(config, private_hand_cards, DefaultNode, RootInfo))
        /\ \A path \in DOMAIN nodes :
               /\ nodes[path] = NodeAt(path)
               /\ \A k \in 1..Len(nodes[path].children) :
                      ~is_terminal(nodes[path].children[k][2]) =>
                          Append(path, k) \in DOMAIN nodes

\* both subtrees were in flight: the river deal of the all-in, with swap lists,
\* and the five player nodes of the river's betting tree have been pushed, and
\* init_root has returned
C21_Witness ==
    /\ ret # "none"
    /\ Cardinality({path \in DOMAIN nodes : ~is_chance(nodes[path])}) = 6
    /\ \E path \in DOMAIN nodes :
           /\ is_chance(nodes[path])
           /\ \E k \in 1..Len(nodes[path].iso_chances) :
                  nodes[path].iso_chances[k].swap_list[0] # <<>>

=============================================================================
